---- MODULE Spec2Model ----
(***************************************************************************)
(* Ticket creation of the ticket-triage API:                               *)
(*   app/api/routes/tickets.py      create_ticket_with_attachments         *)
(*   app/services/tickets_service.py fetch_single_id,                      *)
(*                                   resolve_ticket_create_refs,           *)
(*                                   build_ticket_insertable               *)
(*   app/models/schemas.py          TicketCreateInputV1/V2/V3              *)
(*                                                                         *)
(* Python dicts are functions whose DOMAIN is the set of keys present      *)
(* (model_dump(exclude_none=True) leaves a None field out of the dict).    *)
(* Strings are sequences of tokens, so that "a@b.com" is <<"a","@","b.com">>*)
(* and str.split("@") can be computed.  The remote store is the set of     *)
(* rows of each table; every remote call is appended to `calls`.           *)
(***************************************************************************)
EXTENDS Integers, Sequences, FiniteSets, TLC

VARIABLES
    clients,         \* rows of table "clients"
    departments,     \* rows of table "departments"
    internal_staff,  \* rows of table "internal_staff"
    categories,      \* rows of table "categories"
    tickets,         \* rows of table "tickets"
    pc,              \* position of the request in the handler
    model,           \* input model class the payload is built with
    form,            \* the fields the caller sent
    data,            \* the working dict `data` of resolve_ticket_create_refs
    insertable,      \* result of build_ticket_insertable
    calls,           \* remote calls issued so far, in order
    resp,            \* HTTP answer of the request
    \* get_response_times (app/api/routes/analytics.py)
    history,         \* rows of the view ticket_status_history_vw
    since,           \* the cutoff of since_days; {} when it is not given
    staff_id,        \* the staff_id parameter; {} when it is not given
    res_data,        \* res.data, the rows the first query returned
    idx,             \* position of the first pass in res_data
    first_new,       \* ticket_id -> first changed_at with status New
    first_in_prog,   \* ticket_id -> first changed_at with In Progress
    first_closed,    \* ticket_id -> first changed_at with Closed
    assignee_map,    \* ticket_id -> assignee_id ({} for None)
    samples,         \* the duration lists, overall and per group
    report,          \* the answer of get_response_times
    rt_pc,           \* position in get_response_times
    \* _fmt_duration
    seconds,         \* the argument; {} is None
    formatted,       \* the string returned; {} before the call
    \* enrich_tickets_with_attachments (app/services/tickets_service.py)
    ticket_attachments, \* rows of table "ticket_attachments"
    settings,        \* SUPABASE_URL and ATTACHMENTS_BUCKET, absent when unset
    batch,           \* the argument `tickets`, a list of ticket rows
    ares,            \* ares.data, the rows the attachment query returned
    queries,         \* attachment queries issued by the call
    enriched,        \* the list returned
    en_pc,           \* position in enrich_tickets_with_attachments
    \* filter_tickets_by_date, filter_tickets_by_attributes (app/api/routes/tickets.py)
    route,           \* the handler called
    attributes,      \* one of status, priority, channel is given
    on,              \* the parameter on; {} is None
    start_date,      \* the parameter start_date; {} is None
    end_date,        \* the parameter end_date; {} is None
    q_range,         \* the range the query filters created_at by; {} when none
    dt_status,       \* HTTP status of the answer; 0 before it
    \* list_tickets (app/api/routes/tickets.py)
    total,           \* number of rows of tickets_formatted the user can read
    limit,           \* the parameter limit
    sort,            \* the parameter sort
    start,           \* offset of the first request of the caller
    offset,          \* the parameter offset of the latest request
    page,            \* data of the latest answer
    count,           \* count of the latest answer; {} is None
    next_offset,     \* next_offset of the latest answer; {} is None
    visited,         \* the rows of all the answers so far, in order
    pg_status,       \* HTTP status of the latest answer; 0 before the first
    \* require_admin and the analytics router
    user,            \* the user record require_user returned
    admitted,        \* what require_admin returned, {} before and after 403
    endpoint,        \* the analytics endpoint that ran, "none" if none
    adm_status,      \* status of the answer, 0 while unanswered
    \* delete_ticket
    del_store,       \* rows of table tickets
    del_ticket_id,   \* the ticket_id of the path
    del_answers,     \* what the store said to each call of the request
    del_exists,      \* exists.data, {} before the select
    del_removed,     \* rows the request deleted
    del_status,      \* status of the answer, 0 while unanswered
    \* update_ticket_with_attachments
    up_exists,       \* the ticket of the path is in table tickets
    patch_data,      \* some form field has a value
    files,           \* filenames of the files of the request
    up_table,        \* rows of table ticket_attachments
    up_storage,      \* object paths in the bucket
    up_old,          \* the rows the ticket had when the request came
    inserted,        \* rows upload_attachments_for_ticket has inserted
    up_calls,        \* calls made to the store, in order
    up_pc,           \* step of the handler
    up_returned,     \* attachments of the returned ticket
    up_status        \* status of the answer, 0 while unanswered

createVars == <<clients, departments, internal_staff, categories, tickets,
                pc, model, form, data, insertable, calls, resp>>

rtVars == <<history, since, staff_id, res_data, idx, first_new, first_in_prog,
            first_closed, assignee_map, samples, report, rt_pc>>

fmtVars == <<seconds, formatted>>

enVars == <<ticket_attachments, settings, batch, ares, queries, enriched, en_pc>>

dtVars == <<route, attributes, on, start_date, end_date, q_range, dt_status>>

pgVars == <<total, limit, sort, start, offset, page, count, next_offset, visited, pg_status>>

admVars == <<user, admitted, endpoint, adm_status>>

delVars == <<del_store, del_ticket_id, del_answers, del_exists, del_removed, del_status>>

upVars == <<up_exists, patch_data, files, up_table, up_storage, up_old, inserted, up_calls, up_pc, up_returned, up_status>>

vars == <<createVars, rtVars, fmtVars, enVars, dtVars, pgVars, admVars, delVars, upVars>>

----------------------------------------------------------------------------
(* Bounds *)

\* number of rows that share the ambiguous name / email of each table
MaxDup == 2

----------------------------------------------------------------------------
(* Dicts and strings *)

EmptyDict == <<>>

Has(d, k) == k \in DOMAIN d

\* data.get(k) is truthy, for a str field: present and not ""
TruthyStr(d, k) == Has(d, k) /\ d[k] # <<>>

\* data.get(k) is truthy, for an int field: present and not 0
TruthyInt(d, k) == Has(d, k) /\ d[k] # 0

Put(d, k, v) == (k :> v) @@ d

Pop(d, ks) == [k \in (DOMAIN d) \ ks |-> d[k]]

Restrict(d, ks) == [k \in (DOMAIN d) \cap ks |-> d[k]]

\* index of the first "@" token of s, 0 when there is none
FirstAt(s) ==
    IF \E i \in 1..Len(s) : s[i] = "@"
    THEN CHOOSE i \in 1..Len(s) : s[i] = "@" /\ \A j \in 1..(i-1) : s[j] # "@"
    ELSE 0

\* LocalPart with the whole address taken as the name
LocalPart_Whole(s) == s

\* s.split("@")[0]
LocalPart(s) == IF FirstAt(s) = 0 THEN s ELSE SubSeq(s, 1, FirstAt(s) - 1)

----------------------------------------------------------------------------
(* Input models (app/models/schemas.py) *)

ScalarFields == {"summary", "status", "priority", "channel"}

V1Fields == ScalarFields \cup
    {"client_id", "department_id", "category_id",
     "email_body", "message_id", "thread_id"}

V2Fields == ScalarFields \cup
    {"client_id", "client_name", "client_email",
     "assignee_id", "assignee_name", "assignee_email",
     "department_id", "department_name",
     "category_id", "category_name",
     "body", "subject", "message_id", "thread_id"}

V3Fields == ScalarFields \cup
    {"client_id", "client_name", "client_email",
     "assignee_id", "department_id", "category_id",
     "body", "subject", "message_id", "thread_id"}

Models == {"V1", "V2", "V3"}

FieldsOf(m) == CASE m = "V1" -> V1Fields
                 [] m = "V2" -> V2Fields
                 [] m = "V3" -> V3Fields

\* Model(**form).model_dump(exclude_none=True): the fields the class declares
\* and that were given; a field the class does not declare is ignored
ModelDump(m, f) == Restrict(f, FieldsOf(m))

----------------------------------------------------------------------------
(* Values of the requests and of the rows of the store *)

sEmpty   == <<>>
sBob     == <<"bob">>
sNew     == <<"new">>
sDup     == <<"dup">>
sAmy     == <<"amy">>
sZed     == <<"zed">>
sSupport == <<"Support">>
sNope    == <<"Nope">>
sBilling == <<"Billing">>
sText    == <<"text">>
eNew     == <<"a", "@", "b.com">>
eBob     == <<"bob", "@", "x.com">>
eDup     == <<"dup", "@", "x.com">>
eAmy     == <<"amy", "@", "x.com">>
eZed     == <<"zed", "@", "x.com">>

Opt(k, S) == {EmptyDict} \cup {k :> v : v \in S}

Cross(A, B) == {a @@ b : a \in A, b \in B}

\* ids a request may carry; 0 is an int that Python treats as false
PayloadIds == {0, 1}

\* the reference fields of one request: without the id every combination of
\* the symbolic values, with the id a smaller choice of companions
ClientParts ==
    Cross(Opt("client_name", {sEmpty, sNew, sBob}),
          Opt("client_email", {sEmpty, eNew, eBob, eDup}))
    \cup Cross({"client_id" :> i : i \in PayloadIds},
               Cross(Opt("client_name", {sNew}), Opt("client_email", {eNew})))

DepartmentParts ==
    Opt("department_name", {sSupport, sDup, sNope})
    \cup Cross({"department_id" :> i : i \in PayloadIds},
               Opt("department_name", {sNope}))

AssigneeParts ==
    Cross(Opt("assignee_email", {eAmy, eZed}),
          Opt("assignee_name", {sAmy, sDup, sZed}))
    \cup Cross({"assignee_id" :> i : i \in PayloadIds},
               Cross(Opt("assignee_email", {eZed}), Opt("assignee_name", {sZed})))

CategoryParts ==
    Opt("category_name", {sBilling, sDup, sNope})
    \cup Cross({"category_id" :> i : i \in PayloadIds},
               Opt("category_name", {sNope}))

\* summary is a required form field; the other scalars are all absent or
\* all given
ScalarParts ==
    {"summary" :> sText,
     [k \in ScalarFields \cup {"body", "subject", "message_id", "thread_id"}
        |-> sText]}

\* what a caller can hand to each input model
FormsV1 == Cross(ScalarParts,
           Cross(Opt("email_body", {sText}),
           Cross(Opt("client_id", PayloadIds),
           Cross(Opt("department_id", PayloadIds),
                 Opt("category_id", PayloadIds)))))

FormsV2 == Cross(ScalarParts,
           Cross(ClientParts,
           Cross(DepartmentParts,
           Cross(AssigneeParts, CategoryParts))))

\* the form of the route declares no department_name; one sent anyway is
\* carried here so that its being ignored is part of the model
FormsV3 == Cross(ScalarParts,
           Cross(ClientParts,
           Cross(Opt("department_name", {sSupport}),
           Cross(Opt("assignee_id", PayloadIds),
           Cross(Opt("department_id", PayloadIds),
                 Opt("category_id", PayloadIds))))))

FormsOf(m) == CASE m = "V1" -> FormsV1
                [] m = "V2" -> FormsV2
                [] m = "V3" -> FormsV3

----------------------------------------------------------------------------
(* The remote store *)

\* ids of the rows that share one name: 2 .. MaxDup + 1
DupIds == 2..(MaxDup + 1)

InitClients ==
    {[id |-> 1, name |-> sBob, email |-> eBob]}
    \cup {[id |-> i, name |-> sDup, email |-> eDup] : i \in DupIds}

InitDepartments ==
    {[id |-> 1, name |-> sSupport]}
    \cup {[id |-> i, name |-> sDup] : i \in DupIds}

InitStaff ==
    {[id |-> 1, name |-> sAmy, email |-> eAmy]}
    \cup {[id |-> i, name |-> sDup, email |-> eDup] : i \in DupIds}

\* "Billing" exists once under department 1 and once under department 2
InitCategories ==
    {[id |-> 1, department_id |-> 1, name |-> sBilling],
     [id |-> MaxDup + 2, department_id |-> 2, name |-> sBilling]}
    \cup {[id |-> i, department_id |-> 1, name |-> sDup] : i \in DupIds}

\* q.eq(k, v) for every item of `where`; a row without the column (NULL)
\* matches no eq filter
Matches(rows, where) ==
    {r \in rows : \A k \in DOMAIN where : Has(r, k) /\ r[k] = where[k]}

Min(a, b) == IF a <= b THEN a ELSE b

\* the next value of a table's serial primary key
NextId(rows) ==
    IF rows = {} THEN 1
    ELSE 1 + (CHOOSE n \in {r.id : r \in rows} : \A r \in rows : r.id <= n)

SelectCall(table, where) == [op |-> "select", table |-> table, args |-> where]

InsertCall(table, payload) == [op |-> "insert", table |-> table, args |-> payload]

----------------------------------------------------------------------------
(* Outcomes of a call of the service functions *)

NoExc == [status |-> 0, detail |-> "", table |-> "", where |-> EmptyDict]

Exc(status, detail) ==
    [status |-> status, detail |-> detail, table |-> "", where |-> EmptyDict]

\* fail_400(f"Multiple matches in {table} for {where}")
MultipleExc(table, where) ==
    [status |-> 400, detail |-> "Multiple matches", table |-> table, where |-> where]

\* fail_400(msg)
fail_400(msg) == Exc(400, msg)

\* fetch_single_id taking an error of the store for an empty result
fetch_single_id_ErrorAsNone(rows, table, where, answer) ==
    LET n == Min(Cardinality(Matches(rows, where)), 2)
    IN  IF answer = "error" \/ n = 0
        THEN [exc |-> NoExc, found |-> FALSE, id |-> 0]
        ELSE IF n > 1
        THEN [exc |-> MultipleExc(table, where), found |-> FALSE, id |-> 0]
        ELSE [exc |-> NoExc, found |-> TRUE,
              id |-> (CHOOSE r \in Matches(rows, where) : TRUE).id]

\* fetch_single_id with .limit(1): the first of several matches is taken
fetch_single_id_First(rows, table, where, answer) ==
    LET n == Min(Cardinality(Matches(rows, where)), 1)
    IN  IF answer = "error"
        THEN [exc |-> Exc(502, "upstream"), found |-> FALSE, id |-> 0]
        ELSE IF n = 0
        THEN [exc |-> NoExc, found |-> FALSE, id |-> 0]
        ELSE [exc |-> NoExc, found |-> TRUE,
              id |-> (CHOOSE r \in Matches(rows, where) : TRUE).id]

\* fetch_single_id(sb, table, where) on the rows of that table.  `answer` is
\* what the store says: "ok", or "error" (res.error set).
\* Result: exc (NoExc when it returns), found (FALSE for None), id.
fetch_single_id(rows, table, where, answer) ==
    LET n == Min(Cardinality(Matches(rows, where)), 2)   \* .limit(2)
    IN  IF answer = "error"
        THEN [exc |-> Exc(502, "upstream"), found |-> FALSE, id |-> 0]
        ELSE IF n = 0
        THEN [exc |-> NoExc, found |-> FALSE, id |-> 0]
        ELSE IF n > 1
        THEN [exc |-> MultipleExc(table, where), found |-> FALSE, id |-> 0]
        ELSE [exc |-> NoExc, found |-> TRUE,
              id |-> (CHOOSE r \in Matches(rows, where) : TRUE).id]

\* build_ticket_insertable(data)
Allowed ==
    {"summary", "status", "priority", "channel",
     "client_id", "assignee_id", "department_id", "category_id", "subject",
     "body", "message_id", "thread_id"}

\* build_ticket_insertable without the filter
build_ticket_insertable_All(d) == d

build_ticket_insertable(d) == Restrict(d, Allowed)

HelperFields ==
    {"client_email", "client_name", "assignee_email", "assignee_name",
     "department_name", "category_name"}

----------------------------------------------------------------------------
(* resolve_ticket_create_refs, one step per reference field *)

\* inp.model_dump(exclude_none=True) of the request being handled
inp == ModelDump(model, form)

Answers == {"ok", "error"}

InsertAnswers == {"ok", "error", "nodata"}

\* _create_client(name, email); email = "" stands for the absent argument.
\* Result: exc, id of the new row, rows of the table afterwards, the payload.
_create_client(rows, name, email, answer, stored) ==
    LET payload == IF email # sEmpty
                   THEN ("name" :> name) @@ ("email" :> email)
                   ELSE ("name" :> name)
        row     == ("id" :> NextId(rows)) @@ payload
    IN  CASE answer = "ok" ->
               [exc |-> NoExc, id |-> row.id, rows |-> rows \cup {row},
                payload |-> payload]
          [] answer = "error" ->
               [exc |-> Exc(502, "upstream"), id |-> 0, rows |-> rows,
                payload |-> payload]
          [] answer = "nodata" ->
               [exc |-> Exc(502, "Failed to create client"), id |-> 0,
                rows |-> IF stored THEN rows \cup {row} ELSE rows,
                payload |-> payload]

\* lines 56-70: the lookup, and the insert when the lookup finds nothing.
\* Result: exc, data, rows (table clients), calls (appended).
ClientStep(d, rows, where, name, email, lk, ins, stored) ==
    LET f == fetch_single_id(rows, "clients", where, lk)
        c == _create_client(rows, name, email, ins, stored)
        sel == <<SelectCall("clients", where)>>
    IN  IF f.exc # NoExc
        THEN [exc |-> f.exc, data |-> d, rows |-> rows, calls |-> sel]
        ELSE IF f.found
        THEN [exc |-> NoExc, data |-> Put(d, "client_id", f.id),
              rows |-> rows, calls |-> sel]
        ELSE [exc |-> c.exc,
              data |-> IF c.exc = NoExc THEN Put(d, "client_id", c.id) ELSE d,
              rows |-> c.rows,
              calls |-> sel \o <<InsertCall("clients", c.payload)>>]

ResolveClientResult(d, rows, lk, ins, stored) ==
    IF Has(d, "client_id")
    THEN [exc |-> NoExc, data |-> d, rows |-> rows, calls |-> <<>>]
    ELSE IF TruthyStr(d, "client_email")
    THEN ClientStep(d, rows, "email" :> d["client_email"],
                    IF TruthyStr(d, "client_name") THEN d["client_name"]
                    ELSE LocalPart(d["client_email"]),
                    d["client_email"], lk, ins, stored)
    ELSE IF TruthyStr(d, "client_name")
    THEN ClientStep(d, rows, "name" :> d["client_name"],
                    d["client_name"], sEmpty, lk, ins, stored)
    ELSE [exc |-> NoExc, data |-> d, rows |-> rows, calls |-> <<>>]

\* MustFind that goes on without an id when the lookup finds nothing
MustFind_Lenient(d, rows, table, where, key, notFound, lk) ==
    LET f == fetch_single_id(rows, table, where, lk)
        sel == <<SelectCall(table, where)>>
    IN  IF f.exc # NoExc
        THEN [exc |-> f.exc, data |-> d, calls |-> sel]
        ELSE IF ~f.found
        THEN [exc |-> NoExc, data |-> d, calls |-> sel]
        ELSE [exc |-> NoExc, data |-> Put(d, key, f.id), calls |-> sel]

\* a lookup that must find its row (department, assignee, category)
\* Result: exc, data, calls.
MustFind(d, rows, table, where, key, notFound, lk) ==
    LET f == fetch_single_id(rows, table, where, lk)
        sel == <<SelectCall(table, where)>>
    IN  IF f.exc # NoExc
        THEN [exc |-> f.exc, data |-> d, calls |-> sel]
        ELSE IF ~f.found
        THEN [exc |-> fail_400(notFound), data |-> d, calls |-> sel]
        ELSE [exc |-> NoExc, data |-> Put(d, key, f.id), calls |-> sel]

Skip(d) == [exc |-> NoExc, data |-> d, calls |-> <<>>]

\* the department block with the name preferred over the id
ResolveDepartmentResult_NameFirst(d, rows, lk) ==
    IF TruthyStr(d, "department_name")
    THEN MustFind(d, rows, "departments", "name" :> d["department_name"],
                  "department_id", "department_name not found", lk)
    ELSE Skip(d)

\* lines 72-77
ResolveDepartmentResult(d, rows, lk) ==
    IF ~Has(d, "department_id") /\ TruthyStr(d, "department_name")
    THEN MustFind(d, rows, "departments", "name" :> d["department_name"],
                  "department_id", "department_name not found", lk)
    ELSE Skip(d)

\* the assignee block trying the name when the email finds nothing
ResolveAssigneeResult_NameFallback(d, rows, lk) ==
    IF Has(d, "assignee_id")
    THEN Skip(d)
    ELSE IF TruthyStr(d, "assignee_email")
    THEN LET byEmail == MustFind(d, rows, "internal_staff",
                                 "email" :> d["assignee_email"],
                                 "assignee_id", "assignee_email not found", lk)
             byName  == MustFind(d, rows, "internal_staff",
                                 "name" :> d["assignee_name"],
                                 "assignee_id", "assignee_name not found", lk)
         IN  IF byEmail.exc.status = 400 /\ TruthyStr(d, "assignee_name")
             THEN [byName EXCEPT !.calls = byEmail.calls \o byName.calls]
             ELSE byEmail
    ELSE IF TruthyStr(d, "assignee_name")
    THEN MustFind(d, rows, "internal_staff", "name" :> d["assignee_name"],
                  "assignee_id", "assignee_name not found", lk)
    ELSE Skip(d)

\* lines 79-90
ResolveAssigneeResult(d, rows, lk) ==
    IF Has(d, "assignee_id")
    THEN Skip(d)
    ELSE IF TruthyStr(d, "assignee_email")
    THEN MustFind(d, rows, "internal_staff", "email" :> d["assignee_email"],
                  "assignee_id", "assignee_email not found", lk)
    ELSE IF TruthyStr(d, "assignee_name")
    THEN MustFind(d, rows, "internal_staff", "name" :> d["assignee_name"],
                  "assignee_id", "assignee_name not found", lk)
    ELSE Skip(d)

\* lines 92-100
ResolveCategoryResult(d, rows, lk) ==
    IF ~Has(d, "category_id") /\ TruthyStr(d, "category_name")
    THEN IF ~TruthyInt(d, "department_id")
         THEN [exc |-> fail_400("category_name requires department_id or department_name"),
               data |-> d, calls |-> <<>>]
         ELSE MustFind(d, rows, "categories",
                       ("department_id" :> d["department_id"])
                           @@ ("name" :> d["category_name"]),
                       "category_id",
                       "category_name not found under the given department", lk)
    ELSE Skip(d)

----------------------------------------------------------------------------
(* The request: create_ticket_with_attachments *)

\* the department block moved before the client block
ResolutionOrder_DepartmentFirst == <<"department", "client", "assignee", "category">>

\* the order of the blocks of resolve_ticket_create_refs (lines 56-100)
ResolutionOrder == <<"client", "department", "assignee", "category">>

\* the position after block p; after the last block the function returns
After(p) ==
    LET i == CHOOSE k \in 1..Len(ResolutionOrder) : ResolutionOrder[k] = p
    IN  IF i < Len(ResolutionOrder) THEN ResolutionOrder[i + 1] ELSE "insert"

\* the request has been answered
Ended == resp # NoExc

\* a block of the resolver either raises (the request ends there, with that
\* answer) or goes on to the next block
Continue(r, p) ==
    /\ data' = r.data
    /\ calls' = calls \o r.calls
    /\ IF r.exc # NoExc
       THEN pc' = pc /\ resp' = r.exc
       ELSE pc' = After(p) /\ resp' = resp

\* enrich_tickets_with_attachments has not been called
EnIdle ==
    /\ ticket_attachments = {}
    /\ settings = EmptyDict
    /\ batch = <<>>
    /\ ares = <<>>
    /\ queries = 0
    /\ enriched = <<>>
    /\ en_pc = "idle"

\* no date filter request has been made
DtIdle ==
    /\ route = "none"
    /\ attributes = FALSE
    /\ on = {}
    /\ start_date = {}
    /\ end_date = {}
    /\ q_range = {}
    /\ dt_status = 0

\* list_tickets has not been called
PgIdle ==
    /\ total = 0
    /\ limit = 1
    /\ sort = FALSE
    /\ start = 0
    /\ offset = 0
    /\ page = <<>>
    /\ count = {}
    /\ next_offset = {}
    /\ visited = <<>>
    /\ pg_status = 0

\* no request has reached the analytics router
AdmIdle ==
    /\ user = [user_id |-> "u1", role |-> {}, staff_id |-> {}, client_id |-> {}]
    /\ admitted = {}
    /\ endpoint = "none"
    /\ adm_status = 0

\* delete_ticket has not been called
DelIdle ==
    /\ del_store = {}
    /\ del_ticket_id = ""
    /\ del_answers = <<>>
    /\ del_exists = {}
    /\ del_removed = {}
    /\ del_status = 0

\* update_ticket_with_attachments has not been called
UpIdle ==
    /\ up_exists = FALSE
    /\ patch_data = FALSE
    /\ files = <<>>
    /\ up_table = {}
    /\ up_storage = {}
    /\ up_old = {}
    /\ inserted = <<>>
    /\ up_calls = <<>>
    /\ up_pc = "idle"
    /\ up_returned = {}
    /\ up_status = 0

\* get_response_times has not been called
RtIdle ==
    /\ history = {}
    /\ since = {}
    /\ staff_id = {}
    /\ res_data = <<>>
    /\ idx = 0
    /\ first_new = <<>>
    /\ first_in_prog = <<>>
    /\ first_closed = <<>>
    /\ assignee_map = <<>>
    /\ samples = <<>>
    /\ report = [status |-> 0]
    /\ rt_pc = "idle"

\* _fmt_duration has not been called
FmtIdle ==
    /\ seconds = {}
    /\ formatted = {}

\* no ticket is being created
CreateIdle ==
    /\ clients = InitClients
    /\ departments = InitDepartments
    /\ internal_staff = InitStaff
    /\ categories = InitCategories
    /\ tickets = {}
    /\ pc = "idle"
    /\ model = "V3"
    /\ form = EmptyDict
    /\ data = EmptyDict
    /\ insertable = EmptyDict
    /\ calls = <<>>
    /\ resp = NoExc

Init ==
    /\ CreateIdle
    /\ UpIdle
    /\ DelIdle
    /\ AdmIdle
    /\ PgIdle
    /\ DtIdle
    /\ EnIdle
    /\ RtIdle
    /\ FmtIdle

\* the payload is built and dumped (route lines 79-96, service line 36)
Receive ==
    /\ pc = "idle"
    /\ \E m \in Models : \E f \in FormsOf(m) :
         /\ model' = m
         /\ form' = f
         /\ data' = ModelDump(m, f)
    /\ pc' = ResolutionOrder[1]
    /\ UNCHANGED <<clients, departments, internal_staff, categories, tickets,
                   insertable, calls, resp>>
    /\ UNCHANGED <<rtVars, fmtVars, enVars, dtVars, pgVars, admVars, delVars, upVars>>

ResolveClient ==
    /\ pc = "client" /\ ~Ended
    /\ \E lk \in Answers, ins \in InsertAnswers, stored \in BOOLEAN :
         LET r == ResolveClientResult(data, clients, lk, ins, stored)
         IN  /\ clients' = r.rows
             /\ Continue(r, "client")
    /\ UNCHANGED <<departments, internal_staff, categories, tickets,
                   model, form, insertable>>
    /\ UNCHANGED <<rtVars, fmtVars, enVars, dtVars, pgVars, admVars, delVars, upVars>>

\* the department block creating the department that is not found, the way
\* the client block does
ResolveDepartment_AutoCreate ==
    /\ pc = "department" /\ ~Ended
    /\ \E lk \in Answers :
         LET r   == ResolveDepartmentResult(data, departments, lk)
             row == [id |-> NextId(departments), name |-> data["department_name"]]
         IN  IF r.exc = fail_400("department_name not found")
             THEN /\ departments' = departments \cup {row}
                  /\ Continue([exc |-> NoExc,
                               data |-> Put(data, "department_id", row.id),
                               calls |-> r.calls \o
                                  <<InsertCall("departments", "name" :> row.name)>>],
                              "department")
             ELSE /\ departments' = departments
                  /\ Continue(r, "department")
    /\ UNCHANGED <<clients, internal_staff, categories, tickets,
                   model, form, insertable>>
    /\ UNCHANGED <<rtVars, fmtVars, enVars, dtVars, pgVars, admVars, delVars, upVars>>

ResolveDepartment ==
    /\ pc = "department" /\ ~Ended
    /\ \E lk \in Answers :
         Continue(ResolveDepartmentResult(data, departments, lk), "department")
    /\ UNCHANGED <<clients, departments, internal_staff, categories, tickets,
                   model, form, insertable>>
    /\ UNCHANGED <<rtVars, fmtVars, enVars, dtVars, pgVars, admVars, delVars, upVars>>

ResolveAssignee ==
    /\ pc = "assignee" /\ ~Ended
    /\ \E lk \in Answers :
         Continue(ResolveAssigneeResult(data, internal_staff, lk), "assignee")
    /\ UNCHANGED <<clients, departments, internal_staff, categories, tickets,
                   model, form, insertable>>
    /\ UNCHANGED <<rtVars, fmtVars, enVars, dtVars, pgVars, admVars, delVars, upVars>>

ResolveCategory ==
    /\ pc = "category" /\ ~Ended
    /\ \E lk \in Answers :
         Continue(ResolveCategoryResult(data, categories, lk), "category")
    /\ UNCHANGED <<clients, departments, internal_staff, categories, tickets,
                   model, form, insertable>>
    /\ UNCHANGED <<rtVars, fmtVars, enVars, dtVars, pgVars, admVars, delVars, upVars>>

TicketAnswers == {"ok", "error", "noid"}

ViewAnswers == {"ok", "error", "nodata"}

\* InsertTicket with the created client deleted again when the store refuses
\* the ticket
InsertTicket_Rollback ==
    /\ pc = "insert" /\ ~Ended
    /\ \E ins \in TicketAnswers, view \in ViewAnswers :
         LET returned == Pop(data, HelperFields)
             record   == build_ticket_insertable(returned)
             n        == NextId(tickets)
             row      == ("id" :> n) @@ ("ticket_id" :> <<"TCK", n>>) @@ record
             ic       == <<InsertCall("tickets", record)>>
             vc       == <<SelectCall("tickets_formatted", "ticket_id" :> <<"TCK", n>>)>>
         IN  /\ data' = returned
             /\ insertable' = record
             /\ CASE ins = "error" ->
                      /\ tickets' = tickets
                      /\ calls' = calls \o ic
                      /\ resp' = Exc(502, "upstream")
                  [] ins = "noid" ->
                      /\ tickets' = tickets \cup {row}
                      /\ calls' = calls \o ic
                      /\ resp' = Exc(502, "Failed to retrieve created ticket_id")
                  [] ins = "ok" ->
                      /\ tickets' = tickets \cup {row}
                      /\ calls' = calls \o ic \o vc
                      /\ resp' = CASE view = "ok" -> Exc(201, "created")
                                   [] view = "error" -> Exc(502, "upstream")
                                   [] view = "nodata" ->
                                        Exc(502, "Created ticket not found in formatted view")
    /\ pc' = "done"
    /\ clients' = IF resp' = Exc(502, "upstream") THEN InitClients ELSE clients
    /\ UNCHANGED <<departments, internal_staff, categories, model, form>>
    /\ UNCHANGED <<rtVars, fmtVars, enVars, dtVars, pgVars, admVars, delVars, upVars>>

\* service lines 102-107 (the helper fields are dropped and data returned),
\* then route lines 97-122: the insert, the read of the formatted view and
\* the upload of the attachments (none are sent)
InsertTicket ==
    /\ pc = "insert" /\ ~Ended
    /\ \E ins \in TicketAnswers, view \in ViewAnswers :
         LET returned == Pop(data, HelperFields)
             record   == build_ticket_insertable(returned)
             n        == NextId(tickets)
             row      == ("id" :> n) @@ ("ticket_id" :> <<"TCK", n>>) @@ record
             ic       == <<InsertCall("tickets", record)>>
             vc       == <<SelectCall("tickets_formatted", "ticket_id" :> <<"TCK", n>>)>>
         IN  /\ data' = returned
             /\ insertable' = record
             /\ CASE ins = "error" ->
                      /\ tickets' = tickets
                      /\ calls' = calls \o ic
                      /\ resp' = Exc(502, "upstream")
                  [] ins = "noid" ->
                      /\ tickets' = tickets \cup {row}
                      /\ calls' = calls \o ic
                      /\ resp' = Exc(502, "Failed to retrieve created ticket_id")
                  [] ins = "ok" ->
                      /\ tickets' = tickets \cup {row}
                      /\ calls' = calls \o ic \o vc
                      /\ resp' = CASE view = "ok" -> Exc(201, "created")
                                   [] view = "error" -> Exc(502, "upstream")
                                   [] view = "nodata" ->
                                        Exc(502, "Created ticket not found in formatted view")
    /\ pc' = "done"
    /\ UNCHANGED <<clients, departments, internal_staff, categories,
                   model, form>>
    /\ UNCHANGED <<rtVars, fmtVars, enVars, dtVars, pgVars, admVars, delVars, upVars>>

Next ==
    \/ Receive
    \/ ResolveClient
    \/ ResolveDepartment
    \/ ResolveAssignee
    \/ ResolveCategory
    \/ InsertTicket

Spec == Init /\ [][Next]_vars

----------------------------------------------------------------------------
(* Vocabulary of the properties *)

RefFields == {"client", "department", "assignee", "category"}

IdKey(f) == CASE f = "client" -> "client_id"
              [] f = "department" -> "department_id"
              [] f = "assignee" -> "assignee_id"
              [] f = "category" -> "category_id"

TableOf(f) == CASE f = "client" -> "clients"
                [] f = "department" -> "departments"
                [] f = "assignee" -> "internal_staff"
                [] f = "category" -> "categories"

FieldOfTable(t) == CASE t = "clients" -> "client"
                     [] t = "departments" -> "department"
                     [] t = "internal_staff" -> "assignee"
                     [] t = "categories" -> "category"
                     [] OTHER -> "insert"

\* the order client, department, assignee, category, then the ticket insert
PosRank(p) == CASE p = "idle" -> 0
                [] p = "client" -> 1
                [] p = "department" -> 2
                [] p = "assignee" -> 3
                [] p = "category" -> 4
                [] p = "insert" -> 5
                [] p = "done" -> 6

\* the rows of a table when the request arrived
InitRows(t) == CASE t = "clients" -> InitClients
                 [] t = "departments" -> InitDepartments
                 [] t = "internal_staff" -> InitStaff
                 [] t = "categories" -> InitCategories
                 [] OTHER -> {}

CallsOnTable(t) == {i \in 1..Len(calls) : calls[i].table = t}

\* the block of field f has run (to its end, or to the exception it raised)
Reached(f) == PosRank(pc) > PosRank(f) \/ (pc = f /\ Ended)

\* the block of field f has run and did not raise
Passed(f) == PosRank(pc) > PosRank(f)

\* the store reported an error on call i (the request ended there with 502)
StoreFailed(i) == i = Len(calls) /\ Ended /\ resp.status = 502

\* n is e.split("@")[0], said without LocalPart
IsLocalPartOf(n, e) ==
    /\ \A i \in 1..Len(n) : n[i] # "@"
    /\ \/ n = e
       \/ Len(e) > Len(n) /\ e[Len(n) + 1] = "@" /\ SubSeq(e, 1, Len(n)) = n

----------------------------------------------------------------------------
(* C1 *)

\* C1: for each of client, department, assignee and category, when the
\* request carries the numeric id of the field, that id stays in data (and in
\* the record to insert) with the same value and no call at all is made on
\* the field's table, whatever name or email comes with it.
C1_GivenIdKeptNoLookup ==
    \A f \in RefFields :
        (pc # "idle" /\ Has(inp, IdKey(f))) =>
            /\ Has(data, IdKey(f))
            /\ data[IdKey(f)] = inp[IdKey(f)]
            /\ CallsOnTable(TableOf(f)) = {}
            /\ pc = "done" =>
                  Has(insertable, IdKey(f)) /\ insertable[IdKey(f)] = inp[IdKey(f)]

\* all four ids given together with names and emails that match no row, and
\* the ticket was created
C1_Witness ==
    /\ pc = "done" /\ resp.status = 201
    /\ \A f \in RefFields : Has(inp, IdKey(f))
    /\ Has(inp, "client_email") /\ Has(inp, "client_name")
    /\ Has(inp, "department_name")
    /\ Has(inp, "assignee_email") /\ Has(inp, "assignee_name")
    /\ Has(inp, "category_name")
    /\ inp["client_id"] = 0

----------------------------------------------------------------------------
(* C2 *)

ClientSymbolic ==
    ~Has(inp, "client_id")
    /\ (TruthyStr(inp, "client_email") \/ TruthyStr(inp, "client_name"))

\* the lookup criteria: the email, or the name when no email is given
ClientWhere ==
    IF TruthyStr(inp, "client_email")
    THEN "email" :> inp["client_email"]
    ELSE "name" :> inp["client_name"]

ClientInserts == {i \in CallsOnTable("clients") : calls[i].op = "insert"}

\* the insert payload is the given name (else the local part of the email)
\* and the given email (no email key when none is given)
ExpectedClientPayload(p) ==
    /\ Has(p, "name")
    /\ IF TruthyStr(inp, "client_name")
       THEN p["name"] = inp["client_name"]
       ELSE IsLocalPartOf(p["name"], inp["client_email"])
    /\ IF TruthyStr(inp, "client_email")
       THEN DOMAIN p = {"name", "email"} /\ p["email"] = inp["client_email"]
       ELSE DOMAIN p = {"name"}

\* C2: when no client_id is given and the lookup of the client (by email, or
\* by name when no email is given) is answered with zero rows, exactly one
\* insert on clients is issued, with the given name (else the local part of
\* the email) and the given email; when the store accepts it, the table has
\* gained exactly that one row and client_id is the id of the new row.
C2_ClientCreatedOnZeroMatches ==
    (/\ Reached("client")
     /\ ClientSymbolic
     /\ Matches(InitClients, ClientWhere) = {}
     /\ ~(Len(calls) = 1 /\ StoreFailed(1)))
    =>
    /\ Cardinality(ClientInserts) = 1
    /\ \A i \in ClientInserts : ExpectedClientPayload(calls[i].args)
    /\ Passed("client") =>
          /\ Cardinality(clients \ InitClients) = 1
          /\ \A r \in clients \ InitClients :
                /\ ExpectedClientPayload(Pop(r, {"id"}))
                /\ \A o \in InitClients : o.id # r.id
                /\ Has(data, "client_id") /\ data["client_id"] = r.id
          /\ InitClients \subseteq clients

\* a@b.com without a name: the new client is named "a"
C2_Witness ==
    /\ Passed("client")
    /\ ~Has(inp, "client_id") /\ ~Has(inp, "client_name")
    /\ Has(inp, "client_email") /\ inp["client_email"] = eNew
    /\ \E r \in clients \ InitClients :
          r["name"] = <<"a">> /\ r["email"] = eNew /\ data["client_id"] = r.id

----------------------------------------------------------------------------
(* C3, C4 *)

MustTables == {"departments", "internal_staff", "categories"}

NotFoundDetail(c) ==
    CASE c.table = "departments" -> "department_name not found"
      [] c.table = "internal_staff" /\ Has(c.args, "email") -> "assignee_email not found"
      [] c.table = "internal_staff" /\ ~Has(c.args, "email") -> "assignee_name not found"
      [] c.table = "categories" -> "category_name not found under the given department"

IsRefSelect(i) == calls[i].op = "select" /\ calls[i].table \in MustTables \cup {"clients"}

\* the lookup of call i was answered by the store, with n matching rows
MatchCount(i) == Cardinality(Matches(InitRows(calls[i].table), calls[i].args))

\* C3: department, assignee, category: the lookup is issued when the id is
\* absent and the name (email) is given, and when it is answered with zero
\* rows the request ends there with the 400 "... not found" of that field,
\* the three tables keep their rows, and no ticket row is inserted.
C3_NotFoundFails ==
    /\ (Reached("department") /\ ~Has(inp, "department_id")
            /\ TruthyStr(inp, "department_name"))
         => \E i \in 1..Len(calls) :
               calls[i] = SelectCall("departments", "name" :> inp["department_name"])
    /\ (Reached("assignee") /\ ~Has(inp, "assignee_id")
            /\ (TruthyStr(inp, "assignee_email") \/ TruthyStr(inp, "assignee_name")))
         => CallsOnTable("internal_staff") # {}
    /\ \A i \in 1..Len(calls) :
          (IsRefSelect(i) /\ calls[i].table \in MustTables
              /\ MatchCount(i) = 0 /\ ~StoreFailed(i))
          =>
          /\ i = Len(calls)
          /\ Ended /\ pc = FieldOfTable(calls[i].table)
          /\ resp.status = 400 /\ resp.detail = NotFoundDetail(calls[i])
          /\ ~Has(data, IdKey(pc))
          /\ departments = InitDepartments
          /\ internal_staff = InitStaff
          /\ categories = InitCategories
          /\ tickets = {}

\* a category name that does not exist under the resolved department
C3_Witness ==
    /\ Ended /\ pc = "category"
    /\ resp.status = 400
    /\ resp.detail = "category_name not found under the given department"
    /\ ~Has(inp, "department_id") /\ Has(data, "department_id")
    /\ tickets = {}

\* C4: whatever the field, a lookup answered with more than one row ends the
\* request there with the 400 "Multiple matches" that names the table and
\* the criteria; no id is taken for the field, no client is created for that
\* lookup, and no ticket row is inserted.
C4_AmbiguousFails ==
    \A i \in 1..Len(calls) :
        (IsRefSelect(i) /\ MatchCount(i) > 1 /\ ~StoreFailed(i))
        =>
        /\ i = Len(calls)
        /\ Ended /\ pc = FieldOfTable(calls[i].table)
        /\ resp.status = 400 /\ resp.detail = "Multiple matches"
        /\ resp.table = calls[i].table /\ resp.where = calls[i].args
        /\ ~Has(data, IdKey(pc))
        /\ calls[i].table = "clients" => clients = InitClients
        /\ tickets = {}

\* two staff rows are named "dup"; the client of the request was created
\* before the assignee was found ambiguous
C4_Witness ==
    /\ Ended /\ pc = "assignee"
    /\ resp.status = 400 /\ resp.detail = "Multiple matches"
    /\ resp.table = "internal_staff" /\ resp.where = ("name" :> sDup)
    /\ clients # InitClients
    /\ tickets = {}

----------------------------------------------------------------------------
(* C5 *)

\* C5: a category_name without category_id needs a department id: with no
\* department id in data (none given, none resolved) the request ends with
\* the 400 "category_name requires department_id or department_name" and no
\* call is made on categories; with a department id in data, whatever its
\* value, the category is looked up by that department id and the name.
C5_CategoryNeedsDepartment ==
    (Reached("category") /\ ~Has(inp, "category_id")
        /\ TruthyStr(inp, "category_name"))
    =>
    IF Has(data, "department_id")
    THEN \E i \in 1..Len(calls) :
            calls[i] = SelectCall("categories",
                          ("department_id" :> data["department_id"])
                              @@ ("name" :> inp["category_name"]))
    ELSE /\ Ended /\ pc = "category"
         /\ resp.status = 400
         /\ resp.detail = "category_name requires department_id or department_name"
         /\ CallsOnTable("categories") = {}

----------------------------------------------------------------------------
(* C6 *)

C6_AllowList ==
    {"summary", "status", "priority", "channel", "client_id", "assignee_id",
     "department_id", "category_id", "subject", "body", "message_id",
     "thread_id"}

C6_Symbolic ==
    {"client_email", "client_name", "assignee_email", "assignee_name",
     "department_name", "category_name"}

\* C6: when resolution succeeds, the record to insert has none of the six
\* symbolic keys and only keys of the allow-list; a key of the payload that
\* is outside the allow-list is left out without an error (the insert of the
\* ticket is issued with that record), and the allow-listed keys of the
\* payload are kept with their values.
C6_InsertableAllowListed ==
    pc = "done" =>
        /\ DOMAIN insertable \cap C6_Symbolic = {}
        /\ DOMAIN insertable \subseteq C6_AllowList
        /\ \A k \in DOMAIN inp \cap C6_AllowList :
              Has(insertable, k) /\ insertable[k] = inp[k]
        /\ \E i \in 1..Len(calls) : calls[i] = InsertCall("tickets", insertable)

\* a TicketCreateInputV1 carries email_body, which is not a ticket column
C6_Witness ==
    /\ pc = "done" /\ resp.status = 201
    /\ Has(inp, "email_body")
    /\ ~Has(insertable, "email_body")
    /\ Has(insertable, "summary")

----------------------------------------------------------------------------
(* C7 *)

\* the request ended after the client block, in a later block of the
\* resolver or on the store's error answer to the ticket insert
LaterStepFailed ==
    /\ Ended
    /\ \/ pc \in {"department", "assignee", "category"}
       \/ /\ pc = "done"
          /\ calls[Len(calls)].table = "tickets"
          /\ resp = Exc(502, "upstream")

\* C7: when the resolver created a client and a later step fails (a later
\* reference does not resolve, or the store answers the ticket insert with
\* an error), the new client row is still in the table when the request has
\* ended, no ticket row exists, and no call follows the client insert on the
\* clients table (nothing deletes the row).
C7_ClientSurvivesLaterFailure ==
    (Passed("client") /\ ClientInserts # {} /\ LaterStepFailed)
    =>
    /\ \E r \in clients \ InitClients : r.id = data["client_id"]
    /\ InitClients \subseteq clients
    /\ tickets = {}
    /\ \A i \in 1..Len(calls) : calls[i].op \in {"select", "insert"}
    /\ \A i \in ClientInserts : \A j \in CallsOnTable("clients") : j <= i

\* through the route's own input model: the client was created, then the
\* store refused the ticket
C7_Witness ==
    /\ model = "V3"
    /\ pc = "done" /\ resp = Exc(502, "upstream")
    /\ calls[Len(calls)].table = "tickets"
    /\ ClientInserts # {}
    /\ clients # InitClients
    /\ tickets = {}

----------------------------------------------------------------------------
(* C8 *)

CallRank(i) == PosRank(FieldOfTable(calls[i].table))

\* C8: the remote calls are made in the order client, department, assignee,
\* category (then the ticket): no call of a field comes before a call of an
\* earlier field, and when the request ended in the block of a field no call
\* of a later field was made.
C8_FixedOrder ==
    /\ \A i, j \in 1..Len(calls) : i < j => CallRank(i) <= CallRank(j)
    /\ \A f \in RefFields :
          (Ended /\ pc = f) => \A i \in 1..Len(calls) : CallRank(i) <= PosRank(f)
    /\ \A i \in 1..Len(calls) : PosRank(pc) >= CallRank(i)

\* all four fields were resolved by lookups and the client was created
C8_Witness ==
    /\ pc = "done" /\ resp.status = 201
    /\ Len(calls) = 7
    /\ calls[1].table = "clients" /\ calls[2].table = "clients"
    /\ calls[3].table = "departments"
    /\ calls[4].table = "internal_staff"
    /\ calls[5].table = "categories"
    /\ calls[6].table = "tickets"

----------------------------------------------------------------------------
(* C9 *)

SelectsOn(t) == {i \in CallsOnTable(t) : calls[i].op = "select"}

\* C9: at most one lookup is made per field; when an email and a name are
\* both given for the client or the assignee (and no id), the one lookup of
\* that field is by the email, also when it finds nothing.
C9_OneLookupByEmail ==
    /\ \A f \in RefFields : Cardinality(SelectsOn(TableOf(f))) <= 1
    /\ (Reached("client") /\ ~Has(inp, "client_id")
           /\ TruthyStr(inp, "client_email") /\ TruthyStr(inp, "client_name"))
         => /\ Cardinality(SelectsOn("clients")) = 1
            /\ \A i \in SelectsOn("clients") :
                  calls[i].args = ("email" :> inp["client_email"])
    /\ (Reached("assignee") /\ ~Has(inp, "assignee_id")
           /\ TruthyStr(inp, "assignee_email") /\ TruthyStr(inp, "assignee_name"))
         => /\ Cardinality(SelectsOn("internal_staff")) = 1
            /\ \A i \in SelectsOn("internal_staff") :
                  calls[i].args = ("email" :> inp["assignee_email"])

\* the email matches no staff row, the name matches one: the request fails
\* on the email and the name is not tried
C9_Witness ==
    /\ Ended /\ pc = "assignee"
    /\ resp = Exc(400, "assignee_email not found")
    /\ ~Has(inp, "assignee_id")
    /\ Has(inp, "assignee_email") /\ Has(inp, "assignee_name")
    /\ inp["assignee_email"] = eZed /\ inp["assignee_name"] = sAmy
    /\ Cardinality(SelectsOn("internal_staff")) = 1

----------------------------------------------------------------------------
(* C10 *)

\* C10: ticket creation with client_email "a@b.com" and department_name
\* "Support" (no client has that email, one department has that name)
\* creates a client, resolves the department id, and the record to insert
\* has the keys client_id and department_id only.
C10_ExamplePayload ==
    (/\ model = "V3"
     /\ pc = "done" /\ resp.status = 201
     /\ DOMAIN form = {"summary", "client_email", "department_name"}
     /\ form["client_email"] = eNew
     /\ form["department_name"] = sSupport)
    =>
    /\ ClientInserts # {}
    /\ clients # InitClients
    /\ Has(data, "department_id") /\ data["department_id"] = 1
    /\ DOMAIN insertable = {"client_id", "department_id"}

----------------------------------------------------------------------------
(* C11 *)

\* C11: the resolver changes nothing in the store but the clients table:
\* departments, internal_staff and categories keep their rows, no ticket
\* exists before the route's own insert, the only insert call on a reference
\* table is on clients, and at most one client row is added per call.
C11_OnlyClientInsert ==
    /\ departments = InitDepartments
    /\ internal_staff = InitStaff
    /\ categories = InitCategories
    /\ pc # "done" => tickets = {}
    /\ \A i \in 1..Len(calls) :
          (calls[i].op = "insert" /\ calls[i].table # "tickets")
              => calls[i].table = "clients"
    /\ Cardinality(ClientInserts) <= 1
    /\ InitClients \subseteq clients
    /\ Cardinality(clients \ InitClients) <= 1

\* the resolver has returned: it created the client and looked the
\* department up
C11_Witness ==
    /\ pc = "insert" /\ ~Ended
    /\ Cardinality(clients \ InitClients) = 1
    /\ CallsOnTable("departments") # {}
    /\ tickets = {}

----------------------------------------------------------------------------
(* get_response_times: GET /analytics/response-times
   (app/api/routes/analytics.py) *)

\* most rows the status-history view holds
MaxEvents == 4

TicketIds == {1, 2}

\* changed_at, in seconds after the first instant of the log
Times == {0, 100, 500}

\* to_status as stored
Statuses == {"New", "In Progress", "Closed"}

StaffIds == {1}

\* Optional[int]: {} is None
OptStaff == {{}} \cup {{s} : s \in StaffIds}

\* the cutoff now - since_days; {} when since_days is None
Cutoffs == {{}, {100}}

\* a row that spells its status in lower case
LowerCaseEvents == {[ticket_id |-> 1, to_status |-> "closed", changed_at |-> 500]}

EventAlphabet ==
    [ticket_id : TicketIds, to_status : Statuses, changed_at : Times]
        \cup LowerCaseEvents

RECURSIVE HistoriesOf(_)
HistoriesOf(n) ==
    IF n = 0 THEN {{}}
    ELSE LET P == HistoriesOf(n - 1)
         IN P \cup {h \cup {e} : h \in P, e \in EventAlphabet}

Histories == HistoriesOf(MaxEvents)

\* str.lower on the labels of the model
Lower(s) ==
    CASE s = "New" -> "new"
      [] s = "In Progress" -> "in progress"
      [] s = "On Hold" -> "on hold"
      [] s = "Closed" -> "closed"
      [] OTHER -> s

mapping ==
    ("new" :> "New") @@ ("in progress" :> "In Progress") @@
    ("on hold" :> "On Hold") @@ ("closed" :> "Closed")

_norm_status(s) ==
    IF s \in DOMAIN mapping THEN mapping[s]
    ELSE IF Lower(s) \in DOMAIN mapping THEN mapping[Lower(s)]
    ELSE s

\* .gte("changed_at", since) when since_days is given
Window(h, c) == {e \in h : \A x \in c : e.changed_at >= x}

\* the rows of S in every order
Orderings(S) ==
    {s \in [1..Cardinality(S) -> S] :
        \A i, j \in 1..Cardinality(S) : i # j => s[i] # s[j]}

\* .order("ticket_id").order("changed_at")
Ordered(s) ==
    \A i \in 1..(Len(s) - 1) :
        \/ s[i].ticket_id < s[i + 1].ticket_id
        \/ /\ s[i].ticket_id = s[i + 1].ticket_id
           /\ s[i].changed_at <= s[i + 1].changed_at

Limit == 100000

Truncate(s) == IF Len(s) <= Limit THEN s ELSE SubSeq(s, 1, Limit)

\* the store returns the rows in whatever order the log holds them
Query_Unordered(h, c) == {Truncate(s) : s \in Orderings(Window(h, c))}

\* the answers the store can give to the first query; rows equal in
\* ticket_id and changed_at come in either order
Query(h, c) == {Truncate(s) : s \in {o \in Orderings(Window(h, c)) : Ordered(o)}}

Metrics == {"to_in_progress", "to_close", "handling"}

\* the tickets the overall loop visits
OverallTickets_Filtered(fn, f, am) == {t \in DOMAIN fn : f = {} \/ am[t] = f}

OverallTickets(fn, f, am) == DOMAIN fn

\* handling measured from New instead of In Progress
OverallValues_HandlingFromNew(T, fn, fi, fc) ==
    [to_in_progress |->
        [t \in {t \in T : t \in DOMAIN fi /\ fi[t] >= fn[t]} |-> fi[t] - fn[t]],
     to_close |->
        [t \in {t \in T : t \in DOMAIN fc /\ fc[t] >= fn[t]} |-> fc[t] - fn[t]],
     handling |->
        [t \in {t \in T : t \in DOMAIN fi /\ t \in DOMAIN fc /\ fc[t] >= fi[t]}
            |-> fc[t] - fn[t]]]

\* the samples taken whenever both timestamps exist
OverallValues_NoOrderTest(T, fn, fi, fc) ==
    [to_in_progress |-> [t \in T \cap DOMAIN fi |-> fi[t] - fn[t]],
     to_close |-> [t \in T \cap DOMAIN fc |-> fc[t] - fn[t]],
     handling |-> [t \in T \cap DOMAIN fi \cap DOMAIN fc |-> fc[t] - fi[t]]]

\* ttip_values, ttr_values, handling_values: ticket -> seconds
OverallValues(T, fn, fi, fc) ==
    [to_in_progress |->
        [t \in {t \in T : t \in DOMAIN fi /\ fi[t] >= fn[t]} |-> fi[t] - fn[t]],
     to_close |->
        [t \in {t \in T : t \in DOMAIN fc /\ fc[t] >= fn[t]} |-> fc[t] - fn[t]],
     handling |->
        [t \in {t \in T : t \in DOMAIN fi /\ t \in DOMAIN fc /\ fc[t] >= fi[t]}
            |-> fc[t] - fi[t]]]

RECURSIVE GCD(_, _)
GCD(a, b) == IF b = 0 THEN a ELSE GCD(b, a % b)

\* the quotient n / d, exactly
Rat(n, d) == [num |-> n \div GCD(n, d), den |-> d \div GCD(n, d)]

RECURSIVE Sum(_)
Sum(vals) ==
    IF DOMAIN vals = {} THEN 0
    ELSE LET t == CHOOSE t \in DOMAIN vals : TRUE
         IN vals[t] + Sum([u \in (DOMAIN vals) \ {t} |-> vals[u]])

\* an empty list averages to zero
_avg_ZeroWhenEmpty(vals) ==
    IF DOMAIN vals = {} THEN {Rat(0, 1)}
    ELSE {Rat(Sum(vals), Cardinality(DOMAIN vals))}

\* Optional[float]: {} is None
_avg(vals) ==
    IF DOMAIN vals = {} THEN {}
    ELSE {Rat(Sum(vals), Cardinality(DOMAIN vals))}

MinusOne == [num |-> 0 - 1, den |-> 1]

\* avg or -1
OrMinusOne(a) ==
    IF a = {} \/ (\E x \in a : x.num = 0) THEN {MinusOne} ELSE a

Part(v, u) == [v |-> v, u |-> u]

\* the string "-"
Dash == <<Part(0, "-")>>

SecondsPerDay == 86400
SecondsPerHour == 3600
SecondsPerMinute == 60

\* the seconds part is appended only when it is not zero
_fmt_duration_NoZero(a) ==
    IF a = {} \/ (\E x \in a : x.num < 0) THEN Dash
    ELSE LET x == CHOOSE x \in a : TRUE
             secs == x.num \div x.den
             days == secs \div SecondsPerDay
             rem1 == secs % SecondsPerDay
             hours == rem1 \div SecondsPerHour
             rem2 == rem1 % SecondsPerHour
             minutes == rem2 \div SecondsPerMinute
             sec == rem2 % SecondsPerMinute
             parts == (IF days # 0 THEN <<Part(days, "d")>> ELSE <<>>) \o
                      (IF hours # 0 THEN <<Part(hours, "h")>> ELSE <<>>) \o
                      (IF minutes # 0 THEN <<Part(minutes, "m")>> ELSE <<>>)
         IN IF sec # 0 THEN parts \o <<Part(sec, "s")>> ELSE parts

\* the parts of the string, which " ".join separates by blanks; the
\* argument is an Optional[float], {} for None
_fmt_duration(a) ==
    IF a = {} \/ (\E x \in a : x.num < 0) THEN Dash
    ELSE LET x == CHOOSE x \in a : TRUE
             secs == x.num \div x.den
             days == secs \div SecondsPerDay
             rem1 == secs % SecondsPerDay
             hours == rem1 \div SecondsPerHour
             rem2 == rem1 % SecondsPerHour
             minutes == rem2 \div SecondsPerMinute
             sec == rem2 % SecondsPerMinute
             parts == (IF days # 0 THEN <<Part(days, "d")>> ELSE <<>>) \o
                      (IF hours # 0 THEN <<Part(hours, "h")>> ELSE <<>>) \o
                      (IF minutes # 0 THEN <<Part(minutes, "m")>> ELSE <<>>)
         IN IF sec # 0 \/ parts = <<>> THEN parts \o <<Part(sec, "s")>>
            ELSE parts

Averages(v) ==
    [averages_seconds |-> [m \in Metrics |-> _avg(v[m])],
     averages_human |-> [m \in Metrics |-> _fmt_duration(OrMinusOne(_avg(v[m])))]]

Overall(v, fn, fi, fc) ==
    [counts |-> [tickets_with_new |-> Cardinality(DOMAIN fn),
                 tickets_with_in_progress |-> Cardinality(DOMAIN fi),
                 tickets_with_closed |-> Cardinality(DOMAIN fc)]]
    @@ Averages(v)

tickets_set(fn, fi, fc) == DOMAIN fn \cup DOMAIN fi \cup DOMAIN fc

\* the tickets the filter lets through
Kept(T, f, am) == {t \in T : f = {} \/ am[t] = f}

\* the handling samples of a group: line 386 does not test created_at
GroupHandling(ts, fn, fi, fc) ==
    [t \in {t \in ts : t \in DOMAIN fi /\ t \in DOMAIN fc /\ fc[t] >= fi[t]}
        |-> fc[t] - fi[t]]

\* groups[sid] after the loop over ticket_ids
Groups(fn, fi, fc, f, am) ==
    LET K == Kept(tickets_set(fn, fi, fc), f, am)
    IN [s \in {am[t] : t \in K} |->
          LET ts == {t \in K : am[t] = s}
          IN [tickets |-> Cardinality(ts \cap DOMAIN fn),
              to_in_progress |->
                 [t \in {t \in ts : t \in DOMAIN fn /\ t \in DOMAIN fi
                                     /\ fi[t] >= fn[t]} |-> fi[t] - fn[t]],
              to_close |->
                 [t \in {t \in ts : t \in DOMAIN fn /\ t \in DOMAIN fc
                                     /\ fc[t] >= fn[t]} |-> fc[t] - fn[t]],
              handling |-> GroupHandling(ts, fn, fi, fc)]]

\* assignee_name of the rows of tickets_detailed, "Unassigned" for None
StaffName(s) ==
    IF s = {} THEN "Unassigned"
    ELSE IF s = {1} THEN "amy" ELSE "bob"

\* rank of (staff_name, str(staff_id)) in the sort of by_staff
SortRank(s) == IF s = {} THEN 0 ELSE CHOOSE n \in StaffIds : s = {n}

GroupEntry(s, g) ==
    [staff_id |-> s,
     staff_name |-> StaffName(s),
     tickets_considered |-> g.tickets,
     samples |-> [m \in Metrics |-> Cardinality(DOMAIN g[m])]]
    @@ Averages(g)

\* by_staff, sorted
by_staff(G) ==
    CHOOSE q \in [1..Cardinality(DOMAIN G) -> {GroupEntry(s, G[s]) : s \in DOMAIN G}] :
        /\ \A s \in DOMAIN G : \E i \in DOMAIN q : q[i] = GroupEntry(s, G[s])
        /\ \A i \in 1..(Len(q) - 1) :
              SortRank(q[i].staff_id) < SortRank(q[i + 1].staff_id)

HTTP_502 == 502
HTTP_200 == 200

RtInit ==
    /\ CreateIdle
    /\ UpIdle
    /\ DelIdle
    /\ AdmIdle
    /\ PgIdle
    /\ DtIdle
    /\ EnIdle
    /\ FmtIdle
    /\ history \in Histories
    /\ since \in Cutoffs
    /\ staff_id \in OptStaff
    /\ res_data = <<>>
    /\ idx = 0
    /\ first_new = <<>>
    /\ first_in_prog = <<>>
    /\ first_closed = <<>>
    /\ assignee_map = <<>>
    /\ samples = <<>>
    /\ report = [status |-> 0]
    /\ rt_pc = "query"

\* lines 264-270: the first query, or its failure
RunQuery ==
    /\ rt_pc = "query"
    /\ \/ /\ report' = [status |-> HTTP_502]
          /\ rt_pc' = "done"
          /\ UNCHANGED <<res_data, idx>>
       \/ /\ \E s \in Query(history, since) : res_data' = s
          /\ idx' = 1
          /\ rt_pc' = "pass"
          /\ UNCHANGED report
    /\ UNCHANGED <<history, since, staff_id, first_new, first_in_prog,
                   first_closed, assignee_map, samples>>
    /\ UNCHANGED <<createVars, fmtVars, enVars, dtVars, pgVars, admVars, delVars, upVars>>

\* every row overwrites what was recorded
NotIn_Always(tid, d) == TRUE

\* tid not in d
NotIn(tid, d) == tid \notin DOMAIN d

\* lines 277-288: one row of the first pass
Pass ==
    /\ rt_pc = "pass"
    /\ idx <= Len(res_data)
    /\ LET r == res_data[idx]
           tid == r.ticket_id
           to_status == _norm_status(r.to_status)
           at == r.changed_at
       IN IF tid = 0 \/ to_status = ""
          THEN UNCHANGED <<first_new, first_in_prog, first_closed>>
          ELSE IF to_status = "New" /\ NotIn(tid, first_new)
          THEN /\ first_new' = (tid :> at) @@ first_new
               /\ UNCHANGED <<first_in_prog, first_closed>>
          ELSE IF to_status = "In Progress" /\ NotIn(tid, first_in_prog)
          THEN /\ first_in_prog' = (tid :> at) @@ first_in_prog
               /\ UNCHANGED <<first_new, first_closed>>
          ELSE IF to_status = "Closed" /\ NotIn(tid, first_closed)
          THEN /\ first_closed' = (tid :> at) @@ first_closed
               /\ UNCHANGED <<first_new, first_in_prog>>
          ELSE UNCHANGED <<first_new, first_in_prog, first_closed>>
    /\ idx' = idx + 1
    /\ UNCHANGED <<history, since, staff_id, res_data, assignee_map, samples,
                   report, rt_pc>>
    /\ UNCHANGED <<createVars, fmtVars, enVars, dtVars, pgVars, admVars, delVars, upVars>>

\* lines 290-424: the samples, the averages, the assignees and the groups
Aggregate ==
    /\ rt_pc = "pass"
    /\ idx > Len(res_data)
    /\ LET T == tickets_set(first_new, first_in_prog, first_closed)
       IN \/ /\ T # {}
             /\ report' = [status |-> HTTP_502]
             /\ UNCHANGED <<assignee_map, samples>>
          \/ \E am \in [T -> OptStaff] :
                LET v == OverallValues(OverallTickets(first_new, staff_id, am),
                                       first_new, first_in_prog, first_closed)
                    G == Groups(first_new, first_in_prog, first_closed,
                                staff_id, am)
                IN /\ assignee_map' = am
                   /\ samples' = [overall |-> v, groups |-> G]
                   /\ report' = [status |-> HTTP_200,
                                 since_days |-> since,
                                 overall |-> Overall(v, first_new, first_in_prog,
                                                     first_closed),
                                 by_staff |-> by_staff(G)]
    /\ rt_pc' = "done"
    /\ UNCHANGED <<history, since, staff_id, res_data, idx, first_new,
                   first_in_prog, first_closed>>
    /\ UNCHANGED <<createVars, fmtVars, enVars, dtVars, pgVars, admVars, delVars, upVars>>

RtNext ==
    \/ RunQuery
    \/ Pass
    \/ Aggregate

SpecRT == RtInit /\ [][RtNext]_vars

----------------------------------------------------------------------------
(* Vocabulary of the response-time properties *)

Milestones == {"New", "In Progress", "Closed"}

\* the dictionary the forward pass keeps for a milestone
Recorded(m) ==
    CASE m = "New" -> first_new
      [] m = "In Progress" -> first_in_prog
      [] OTHER -> first_closed

\* the events of the log, inside the window, of ticket t and milestone m
LogEvents(t, m) ==
    {e \in Window(history, since) :
        e.ticket_id = t /\ _norm_status(e.to_status) = m}

\* the forward pass has read every row
PassOver == rt_pc \in {"pass", "done"} /\ idx > Len(res_data)

\* the request was answered with the report
Reported == rt_pc = "done" /\ report.status = HTTP_200

----------------------------------------------------------------------------
(* C12 *)

\* C12: whatever the log holds, a recorded first-New, first-In-Progress or
\* first-Closed timestamp of a ticket is the least changed_at among that
\* ticket's events of the milestone, and after the pass every ticket with
\* such an event has one recorded.
C12_FirstIsMinimum ==
    \A t \in TicketIds, m \in Milestones :
        /\ t \in DOMAIN Recorded(m) =>
              /\ \E e \in LogEvents(t, m) : e.changed_at = Recorded(m)[t]
              /\ \A e \in LogEvents(t, m) : Recorded(m)[t] <= e.changed_at
        /\ (PassOver /\ LogEvents(t, m) # {}) => t \in DOMAIN Recorded(m)

\* a ticket has two events of one milestone at different times, and the pass
\* has recorded the earlier one
C12_Witness ==
    /\ PassOver
    /\ \E t \in TicketIds, m \in Milestones :
          /\ \E e1, e2 \in LogEvents(t, m) : e1.changed_at < e2.changed_at
          /\ t \in DOMAIN Recorded(m)
          /\ \A e \in LogEvents(t, m) : Recorded(m)[t] <= e.changed_at

----------------------------------------------------------------------------
(* C13 *)

\* row i of res_data is an event of ticket t and milestone m
IsEventOf(i, t, m) ==
    /\ res_data[i].ticket_id = t
    /\ _norm_status(res_data[i].to_status) = m

\* C13: in every step, a milestone timestamp already recorded for a ticket
\* stays as it is, and a timestamp is recorded only by the row being read,
\* when no earlier row of res_data is an event of the same ticket and
\* milestone.
C13_FirstOccurrenceWins ==
    [][\A t \in TicketIds, m \in Milestones :
          /\ t \in DOMAIN Recorded(m) =>
                /\ t \in DOMAIN Recorded(m)'
                /\ Recorded(m)'[t] = Recorded(m)[t]
          /\ (t \notin DOMAIN Recorded(m) /\ t \in DOMAIN Recorded(m)') =>
                /\ rt_pc = "pass"
                /\ idx <= Len(res_data)
                /\ IsEventOf(idx, t, m)
                /\ Recorded(m)'[t] = res_data[idx].changed_at
                /\ \A j \in 1..(idx - 1) : ~IsEventOf(j, t, m)]_vars

\* the pass has read two rows of one ticket and milestone that carry the
\* same timestamp, and the milestone is recorded
C13_Witness ==
    /\ PassOver
    /\ \E i, j \in 1..Len(res_data), m \in Milestones :
          /\ i < j
          /\ IsEventOf(i, res_data[i].ticket_id, m)
          /\ IsEventOf(j, res_data[i].ticket_id, m)
          /\ res_data[i].changed_at = res_data[j].changed_at
          /\ res_data[i].ticket_id \in DOMAIN Recorded(m)
          /\ Recorded(m)[res_data[i].ticket_id] = res_data[i].changed_at

----------------------------------------------------------------------------
(* C14 *)

\* the milestone a metric starts from, and the one it ends at
StartOf(m) == IF m = "handling" THEN first_in_prog ELSE first_new

EndOf(m) == IF m = "to_in_progress" THEN first_in_prog ELSE first_closed

\* the sample lists of the report: the overall ones and those of each group
Buckets == {samples.overall} \cup {samples.groups[s] : s \in DOMAIN samples.groups}

\* ticket t has both timestamps of metric m, the end before the start
OutOfOrder(t, m) ==
    /\ t \in DOMAIN StartOf(m)
    /\ t \in DOMAIN EndOf(m)
    /\ EndOf(m)[t] < StartOf(m)[t]

\* C14: in a report, every sample of every bucket is non-negative, belongs
\* to a ticket that has both timestamps of the metric with the end not
\* before the start, and is their difference; a ticket whose pair is out of
\* order has no sample for that metric in any bucket.
C14_SamplesNonNegative ==
    Reported =>
        \A b \in Buckets, m \in Metrics :
            /\ \A t \in DOMAIN b[m] :
                  /\ b[m][t] >= 0
                  /\ t \in DOMAIN StartOf(m)
                  /\ t \in DOMAIN EndOf(m)
                  /\ EndOf(m)[t] >= StartOf(m)[t]
                  /\ b[m][t] = EndOf(m)[t] - StartOf(m)[t]
            /\ \A t \in TicketIds : OutOfOrder(t, m) => t \notin DOMAIN b[m]

\* a report over a log where In Progress was recorded before New for a
\* ticket that also has an in-order sample
C14_Witness ==
    /\ Reported
    /\ \E t \in TicketIds :
          /\ OutOfOrder(t, "to_in_progress")
          /\ t \notin DOMAIN samples.overall["to_in_progress"]
          /\ t \in DOMAIN samples.overall["handling"]
          /\ samples.groups # <<>>

----------------------------------------------------------------------------
(* C15 *)

\* a is the arithmetic mean of the samples vals, or None when there is none
IsMeanOf(a, vals) ==
    IF DOMAIN vals = {} THEN a = {}
    ELSE /\ Cardinality(a) = 1
         /\ \A x \in a :
               /\ x.den > 0
               /\ x.num * Cardinality(DOMAIN vals) = Sum(vals) * x.den

\* C15: in a report, for the overall bucket and for every group, and for
\* each metric, averages_seconds is the arithmetic mean of the samples of
\* the bucket when there is one, and None when there is none.
C15_AverageIsMean ==
    Reported =>
        \A m \in Metrics :
            /\ IsMeanOf(report.overall.averages_seconds[m], samples.overall[m])
            /\ \A i \in 1..Len(report.by_staff) :
                  /\ report.by_staff[i].staff_id \in DOMAIN samples.groups
                  /\ IsMeanOf(report.by_staff[i].averages_seconds[m],
                              samples.groups[report.by_staff[i].staff_id][m])

\* a report with a metric of two samples, a metric without samples, and a
\* group without samples for a metric
C15_Witness ==
    /\ Reported
    /\ \E m \in Metrics :
          /\ Cardinality(DOMAIN samples.overall[m]) = 2
          /\ report.overall.averages_seconds[m] # {}
    /\ \E m \in Metrics : report.overall.averages_seconds[m] = {}
    /\ \E i \in 1..Len(report.by_staff), m \in Metrics :
          report.by_staff[i].averages_seconds[m] = {}

----------------------------------------------------------------------------
(* C16 *)

\* the buckets of the report with their samples: the overall section and
\* every entry of by_staff
ReportBuckets ==
    {[out |-> report.overall, vals |-> samples.overall]} \cup
    {[out |-> report.by_staff[i],
      vals |-> samples.groups[report.by_staff[i].staff_id]] :
        i \in 1..Len(report.by_staff)}

\* C16: in a report, for every bucket and metric, averages_human is the
\* dash exactly when the bucket has no sample for the metric, and a bucket
\* whose samples sum to zero seconds renders as "0s".
C16_DashOnlyWithoutSamples ==
    Reported =>
        \A b \in ReportBuckets, m \in Metrics :
            /\ b.out.averages_human[m] = Dash <=> DOMAIN b.vals[m] = {}
            /\ (DOMAIN b.vals[m] # {} /\ Sum(b.vals[m]) = 0)
                  => b.out.averages_human[m] = <<Part(0, "s")>>

----------------------------------------------------------------------------
(* C17 *)

\* the samples of metric m counted over the entries q of by_staff
RECURSIVE SamplesSum(_, _)
SamplesSum(q, m) ==
    IF q = <<>> THEN 0 ELSE Head(q).samples[m] + SamplesSum(Tail(q), m)

\* C17: in a report, a ticket has a sample in its group only if it has a
\* first-New timestamp, and without a staff_id filter the samples of each
\* metric counted over all groups are as many as the overall samples.
C17_GroupsSampleLikeOverall ==
    Reported =>
        \A m \in Metrics :
            /\ \A s \in DOMAIN samples.groups :
                  DOMAIN samples.groups[s][m] \subseteq DOMAIN first_new
            /\ staff_id = {} =>
                  SamplesSum(report.by_staff, m)
                      = Cardinality(DOMAIN samples.overall[m])

----------------------------------------------------------------------------
(* C18 *)

\* the overall section the request would return with the filter f, on the
\* timestamps and the assignees of this run
OverallWith(f) ==
    Overall(OverallValues(OverallTickets(first_new, f, assignee_map),
                          first_new, first_in_prog, first_closed),
            first_new, first_in_prog, first_closed)

\* C18: the overall section of a report is the one every other value of
\* the staff_id filter, none included, gives on the same log and assignees;
\* and under a filter every entry of by_staff is of the staff member asked
\* for.
C18_FilterLeavesOverall ==
    Reported =>
        /\ \A f \in OptStaff : report.overall = OverallWith(f)
        /\ staff_id # {} =>
              \A i \in 1..Len(report.by_staff) :
                  report.by_staff[i].staff_id = staff_id

\* a report under a filter that keeps one ticket and leaves another out,
\* both counted in the overall section
C18_Witness ==
    /\ Reported
    /\ staff_id # {}
    /\ \E t, u \in DOMAIN first_new :
          /\ assignee_map[t] = staff_id
          /\ assignee_map[u] # staff_id
          /\ u \in DOMAIN samples.overall["to_in_progress"]
    /\ Len(report.by_staff) = 1
    /\ report.overall.counts.tickets_with_new = 2

----------------------------------------------------------------------------
(* C19 *)

\* the log (T1, New, 0), (T1, In Progress, 100), (T1, Closed, 500)
ExampleLog ==
    {[ticket_id |-> 1, to_status |-> "New", changed_at |-> 0],
     [ticket_id |-> 1, to_status |-> "In Progress", changed_at |-> 100],
     [ticket_id |-> 1, to_status |-> "Closed", changed_at |-> 500]}

\* C19: the report over the example log has the overall averages
\* to_in_progress = 100 s, to_close = 500 s and handling = 400 s, and counts
\* one ticket for each milestone.
C19_ExampleLog ==
    (Reported /\ Window(history, since) = ExampleLog) =>
        /\ report.overall.averages_seconds["to_in_progress"] = {[num |-> 100, den |-> 1]}
        /\ report.overall.averages_seconds["to_close"] = {[num |-> 500, den |-> 1]}
        /\ report.overall.averages_seconds["handling"] = {[num |-> 400, den |-> 1]}
        /\ report.overall.counts.tickets_with_new = 1
        /\ report.overall.counts.tickets_with_in_progress = 1
        /\ report.overall.counts.tickets_with_closed = 1

\* the report over the example log
C19_Witness ==
    /\ Reported
    /\ history = ExampleLog
    /\ since = {}
    /\ Len(res_data) = 3
    /\ report.overall.averages_seconds["handling"] # {}

----------------------------------------------------------------------------
(* _fmt_duration (app/api/routes/analytics.py) *)

\* most days, and most small counts of the other units, in an argument
MaxUnit == 1

\* the counts a unit takes: the small ones and the greatest
UnitValues(top) == 0..MaxUnit \cup {top}

WholeSeconds ==
    {d * SecondsPerDay + h * SecondsPerHour + m * SecondsPerMinute + sec :
        d \in 0..MaxUnit, h \in UnitValues(23), m \in UnitValues(59),
        sec \in UnitValues(59)}

\* None, the whole numbers, their negatives, and two halves
FmtInputs ==
    {{}} \cup {{Rat(n, 1)} : n \in WholeSeconds}
         \cup {{[num |-> 0 - n, den |-> 1]} : n \in WholeSeconds \ {0}}
         \cup {{Rat(1, 2)}, {Rat(119, 2)}}

FmtInit ==
    /\ CreateIdle
    /\ UpIdle
    /\ DelIdle
    /\ AdmIdle
    /\ PgIdle
    /\ DtIdle
    /\ EnIdle
    /\ RtIdle
    /\ seconds \in FmtInputs
    /\ formatted = {}

\* lines 77-96
Format ==
    /\ formatted = {}
    /\ formatted' = {_fmt_duration(seconds)}
    /\ UNCHANGED seconds
    /\ UNCHANGED <<createVars, rtVars, enVars, dtVars, pgVars, admVars, delVars, upVars>>

FmtNext ==
    \/ Format

SpecFmt == FmtInit /\ [][FmtNext]_vars

----------------------------------------------------------------------------
(* C20 *)

Units == <<"d", "h", "m", "s">>

\* the seconds one count of the i-th unit stands for
Weight(i) ==
    CASE i = 1 -> SecondsPerDay
      [] i = 2 -> SecondsPerHour
      [] i = 3 -> SecondsPerMinute
      [] OTHER -> 1

\* the position of the unit of a part in Units
UnitIndex(p) == CHOOSE i \in 1..4 : Units[i] = p.u

RECURSIVE TotalSeconds(_)
TotalSeconds(out) ==
    IF out = <<>> THEN 0
    ELSE Head(out).v * Weight(UnitIndex(Head(out))) + TotalSeconds(Tail(out))

\* out renders n >= 0: units in the order d, h, m, s, none of them zero
\* unless out is "0s", adding up to n
Renders(out, n) ==
    /\ \A i \in 1..Len(out) : \E k \in 1..4 : Units[k] = out[i].u
    /\ \A i, j \in 1..Len(out) : i < j => UnitIndex(out[i]) < UnitIndex(out[j])
    /\ \A i \in 1..Len(out) : out[i].v = 0 => out = <<Part(0, "s")>>
    /\ n = 0 => out = <<Part(0, "s")>>
    /\ TotalSeconds(out) = n

\* C20: once _fmt_duration has returned, for a whole argument n >= 0 the
\* result lists days, hours, minutes and seconds in that order, leaves out
\* the units that are zero, is "0s" for n = 0 and adds up to n seconds; for
\* a negative argument the result is the dash.
C20_FormatsWholeSeconds ==
    \A out \in formatted, x \in seconds :
        /\ (x.den = 1 /\ x.num >= 0) => Renders(out, x.num)
        /\ x.num < 0 => out = Dash

\* _fmt_duration has returned for 1 day, 1 hour, 1 minute and 1 second
C20_Witness ==
    /\ seconds = {Rat(SecondsPerDay + SecondsPerHour + SecondsPerMinute + 1, 1)}
    /\ \E out \in formatted : Len(out) = 4

----------------------------------------------------------------------------
(* enrich_tickets_with_attachments (app/services/tickets_service.py) *)

\* most ticket rows in a batch
MaxBatch == 2

\* most rows of ticket_attachments
MaxAtt == 2

\* ticket rows: two with a primary key, one without
TicketRows ==
    {[id |-> 1, summary |-> sText], [id |-> 2, summary |-> sText],
     [summary |-> sText]}

Batches == UNION {[1..n -> TicketRows] : n \in 0..MaxBatch}

sPath == <<"tickets/T1/a.png">>
sStoredUrl == <<"stored">>
sBase == <<"https://x.supabase.co">>
sBucket == <<"att">>

\* rows of ticket_attachments, with and without a stored file_url, with and
\* without a file_path
AttachmentAlphabet ==
    {r @@ u : r \in [ticket_id : {1, 2}, file_path : {sPath, sEmpty},
                     created_at : {0, 1}],
              u \in Opt("file_url", {sStoredUrl})}

RECURSIVE TablesOf(_)
TablesOf(n) ==
    IF n = 0 THEN {{}}
    ELSE LET P == TablesOf(n - 1)
         IN P \cup {h \cup {e} : h \in P, e \in AttachmentAlphabet}

\* the module constants read from the environment
Configs ==
    Cross(Opt("SUPABASE_URL", {sEmpty, sBase}),
          Opt("ATTACHMENTS_BUCKET", {sBucket}))

\* lines 282-285
IdsOf(b) == {b[i].id : i \in {j \in 1..Len(b) : Has(b[j], "id")}}

\* .in_("ticket_id", ids).order("created_at"): the answers the store can
\* give, rows of equal created_at in either order
AttachmentQuery(T, ids) ==
    {o \in Orderings({r \in T : r.ticket_id \in ids}) :
        \A i \in 1..(Len(o) - 1) : o[i].created_at <= o[i + 1].created_at}

\* the base is built when the URL alone is set
public_base_UrlOnly(cfg) ==
    IF TruthyStr(cfg, "SUPABASE_URL")
    THEN {cfg["SUPABASE_URL"] \o <<"/storage/v1/object/public/">> \o
          (IF Has(cfg, "ATTACHMENTS_BUCKET") THEN cfg["ATTACHMENTS_BUCKET"]
           ELSE <<"None">>)}
    ELSE {}

\* lines 299-301; {} is None
public_base(cfg) ==
    IF TruthyStr(cfg, "SUPABASE_URL") /\ TruthyStr(cfg, "ATTACHMENTS_BUCKET")
    THEN {cfg["SUPABASE_URL"] \o <<"/storage/v1/object/public/">> \o
          cfg["ATTACHMENTS_BUCKET"]}
    ELSE {}

\* lines 307-308
WithUrl(att, pb) ==
    IF pb # {} /\ TruthyStr(att, "file_path")
    THEN Put(att, "file_url",
             (CHOOSE b \in pb : TRUE) \o <<"/">> \o att["file_path"])
    ELSE att

\* every row goes under every ticket
Group_All(rows, t, pb) == [i \in 1..Len(rows) |-> WithUrl(rows[i], pb)]

\* attachments_map[t]: the rows of ticket t, in the order of rows
RECURSIVE Group(_, _, _)
Group(rows, t, pb) ==
    IF rows = <<>> THEN <<>>
    ELSE IF Has(Head(rows), "ticket_id") /\ Head(rows)["ticket_id"] = t
         THEN <<WithUrl(Head(rows), pb)>> \o Group(Tail(rows), t, pb)
         ELSE Group(Tail(rows), t, pb)

\* lines 303-309
attachments_map(rows, cfg) ==
    [t \in {rows[i]["ticket_id"] :
                i \in {j \in 1..Len(rows) : Has(rows[j], "ticket_id")}}
        |-> Group(rows, t, public_base(cfg))]

\* attachments_map.get(tid, [])
AttachmentsOf(row, amap) ==
    IF Has(row, "id") /\ row["id"] \in DOMAIN amap THEN amap[row["id"]]
    ELSE <<>>

\* a ticket without attachments is left as it is
Merge_OmitEmpty(row, amap) ==
    IF AttachmentsOf(row, amap) = <<>> THEN row
    ELSE Put(row, "attachments", AttachmentsOf(row, amap))

\* line 317
Merge(row, amap) == Put(row, "attachments", AttachmentsOf(row, amap))

\* lines 311-319
Enriched(b, amap) == [i \in 1..Len(b) |-> Merge(b[i], amap)]

EnInit ==
    /\ CreateIdle
    /\ UpIdle
    /\ DelIdle
    /\ AdmIdle
    /\ PgIdle
    /\ DtIdle
    /\ RtIdle
    /\ FmtIdle
    /\ ticket_attachments \in TablesOf(MaxAtt)
    /\ settings \in Configs
    /\ batch \in Batches
    /\ ares = <<>>
    /\ queries = 0
    /\ enriched = <<>>
    /\ en_pc = "start"

\* lines 279-280
EnrichEmpty ==
    /\ en_pc = "start"
    /\ batch = <<>>
    /\ enriched' = batch
    /\ en_pc' = "done"
    /\ UNCHANGED <<ticket_attachments, settings, batch, ares, queries>>
    /\ UNCHANGED <<createVars, rtVars, fmtVars, dtVars, pgVars, admVars, delVars, upVars>>

\* lines 282-297: the ids, and the one query when there is an id
EnrichQuery ==
    /\ en_pc = "start"
    /\ batch # <<>>
    /\ IF IdsOf(batch) = {}
       THEN /\ en_pc' = "merge"
            /\ UNCHANGED <<ares, queries>>
       ELSE /\ queries' = queries + 1
            /\ \/ /\ en_pc' = "failed"
                  /\ UNCHANGED ares
               \/ /\ \E o \in AttachmentQuery(ticket_attachments, IdsOf(batch)) :
                        ares' = o
                  /\ en_pc' = "merge"
    /\ UNCHANGED <<ticket_attachments, settings, batch, enriched>>
    /\ UNCHANGED <<createVars, rtVars, fmtVars, dtVars, pgVars, admVars, delVars, upVars>>

\* lines 299-319
EnrichMerge ==
    /\ en_pc = "merge"
    /\ enriched' = Enriched(batch, attachments_map(ares, settings))
    /\ en_pc' = "done"
    /\ UNCHANGED <<ticket_attachments, settings, batch, ares, queries>>
    /\ UNCHANGED <<createVars, rtVars, fmtVars, dtVars, pgVars, admVars, delVars, upVars>>

EnNext ==
    \/ EnrichEmpty
    \/ EnrichQuery
    \/ EnrichMerge

SpecEn == EnInit /\ [][EnNext]_vars

----------------------------------------------------------------------------
(* C21 *)

\* enrich_tickets_with_attachments has returned
Returned == en_pc = "done"

\* the rows of the table that belong to a ticket row
RowsOf(row) ==
    {r \in ticket_attachments : Has(row, "id") /\ r["ticket_id"] = row["id"]}

\* C21: the returned list is as long as the batch; the record at each
\* position keeps every field of the input record at that position; and
\* each record has an attachments field, the empty list when the table
\* holds no row of the ticket.
C21_SameOrderWithAttachments ==
    Returned =>
        /\ Len(enriched) = Len(batch)
        /\ \A i \in 1..Len(batch) :
              /\ \A k \in DOMAIN batch[i] :
                    Has(enriched[i], k) /\ enriched[i][k] = batch[i][k]
              /\ Has(enriched[i], "attachments")
              /\ RowsOf(batch[i]) = {} => enriched[i]["attachments"] = <<>>

\* a batch of two different tickets has been enriched, the first without
\* attachment rows and the second with one
C21_Witness ==
    /\ Returned
    /\ Len(batch) = 2
    /\ batch[1] # batch[2]
    /\ RowsOf(batch[1]) = {}
    /\ RowsOf(batch[2]) # {}
    /\ Has(enriched[1], "attachments")
    /\ Has(enriched[2], "attachments")
    /\ enriched[2]["attachments"] # <<>>

----------------------------------------------------------------------------
(* C22 *)

\* the positions in ares of the rows of ticket id t
PositionsOf(t) == {j \in 1..Len(ares) : ares[j]["ticket_id"] = t}

\* the k-th of these positions
KthPosition(t, k) ==
    CHOOSE j \in PositionsOf(t) :
        Cardinality({q \in PositionsOf(t) : q < j}) = k - 1

\* a is the returned row r, a derived file_url apart
SameRow(a, r) ==
    /\ DOMAIN a \ {"file_url"} = DOMAIN r \ {"file_url"}
    /\ \A f \in DOMAIN r \ {"file_url"} : a[f] = r[f]

\* C22: a call issues at most one attachment query, and none when no ticket
\* of the batch has an id; in the returned list, the attachments of a ticket
\* are the rows of ares whose ticket_id is the id of the ticket, in the
\* order of ares, and a ticket without id has none.
C22_OneQueryGroupedById ==
    /\ queries <= 1
    /\ IdsOf(batch) = {} => queries = 0
    /\ Returned =>
          \A i \in 1..Len(batch) :
              LET A == enriched[i]["attachments"]
              IN IF ~Has(batch[i], "id") THEN A = <<>>
                 ELSE /\ Len(A) = Cardinality(PositionsOf(batch[i]["id"]))
                      /\ \A k \in 1..Len(A) :
                            /\ A[k]["ticket_id"] = batch[i]["id"]
                            /\ SameRow(A[k], ares[KthPosition(batch[i]["id"], k)])

\* a batch of two tickets with ids has been enriched with one query that
\* returned two rows of one ticket, created at different times
C22_Witness ==
    /\ Returned
    /\ queries = 1
    /\ Cardinality(IdsOf(batch)) = 2
    /\ Len(ares) = 2
    /\ ares[1]["ticket_id"] = ares[2]["ticket_id"]
    /\ ares[1]["created_at"] < ares[2]["created_at"]
    /\ \E i, j \in 1..Len(batch) :
          /\ Len(enriched[i]["attachments"]) = 2
          /\ enriched[j]["attachments"] = <<>>

----------------------------------------------------------------------------
(* C23 *)

\* SUPABASE_URL and ATTACHMENTS_BUCKET are both set and not empty
Configured ==
    /\ Has(settings, "SUPABASE_URL") /\ settings["SUPABASE_URL"] # <<>>
    /\ Has(settings, "ATTACHMENTS_BUCKET") /\ settings["ATTACHMENTS_BUCKET"] # <<>>

\* base URL + "/storage/v1/object/public/" + bucket + "/" + file_path
DerivedUrl(r) ==
    settings["SUPABASE_URL"] \o <<"/storage/v1/object/public/">> \o
    settings["ATTACHMENTS_BUCKET"] \o <<"/">> \o r["file_path"]

\* C23: in the returned list, when the base URL or the bucket is not
\* configured every attachment is the row the query returned, unchanged;
\* when both are configured an attachment with a file_path is that row with
\* file_url set to the derived URL, and one without file_path is unchanged.
C23_UrlOnlyWhenConfigured ==
    Returned =>
        \A i \in 1..Len(batch) :
            \A k \in 1..Len(enriched[i]["attachments"]) :
                LET a == enriched[i]["attachments"][k]
                    r == ares[KthPosition(batch[i]["id"], k)]
                IN IF Configured /\ r["file_path"] # <<>>
                   THEN /\ SameRow(a, r)
                        /\ Has(a, "file_url")
                        /\ a["file_url"] = DerivedUrl(r)
                   ELSE a = r

\* a batch has been enriched with the base URL set and no bucket: an
\* attachment with a file_path and a stored file_url came through
C23_Witness ==
    /\ Returned
    /\ TruthyStr(settings, "SUPABASE_URL")
    /\ ~Has(settings, "ATTACHMENTS_BUCKET")
    /\ \E i \in 1..Len(batch) :
          /\ enriched[i]["attachments"] # <<>>
          /\ enriched[i]["attachments"][1]["file_path"] # <<>>
          /\ Has(enriched[i]["attachments"][1], "file_url")

----------------------------------------------------------------------------
(* C24 *)

\* what the block at pc would return on the store's answers lk and ins
BlockResult(lk, ins, stored) ==
    CASE pc = "client" ->
             ResolveClientResult(data, clients, lk, ins, stored)
      [] pc = "department" ->
             [rows |-> clients] @@ ResolveDepartmentResult(data, departments, lk)
      [] pc = "assignee" ->
             [rows |-> clients] @@ ResolveAssigneeResult(data, internal_staff, lk)
      [] pc = "category" ->
             [rows |-> clients] @@ ResolveCategoryResult(data, categories, lk)

\* the request ended in a block of the resolver, with 502
FailedUpstream == pc \in RefFields /\ Ended /\ resp.status = 502

\* C24: in every block of the resolver, a lookup the store answers with an
\* error ends the block with 502 after that one call, and so does a client
\* insert the store answers with an error, which adds no client row; and a
\* request that ended with 502 in the resolver has the failed call as its
\* last call, made once, no call of a later block, and no ticket row.
C24_UpstreamFailureEnds ==
    /\ (pc \in RefFields /\ ~Ended) =>
          \A ins \in InsertAnswers, stored \in BOOLEAN :
              /\ LET r == BlockResult("error", ins, stored)
                 IN r.calls # <<>> =>
                       /\ r.exc.status = 502
                       /\ Len(r.calls) = 1
                       /\ r.rows = clients
              /\ LET r == BlockResult("ok", "error", stored)
                 IN (\E i \in 1..Len(r.calls) : r.calls[i].op = "insert") =>
                       /\ r.exc.status = 502
                       /\ r.calls[Len(r.calls)].op = "insert"
                       /\ Len(r.calls) = 2
                       /\ r.rows = clients
    /\ FailedUpstream =>
          /\ calls # <<>>
          /\ calls[Len(calls)].table = TableOf(pc)
          /\ \A i \in 1..(Len(calls) - 1) : calls[i] # calls[Len(calls)]
          /\ \A i \in 1..Len(calls) : CallRank(i) <= PosRank(pc)
          /\ tickets = {}
          /\ CallsOnTable("tickets") = {}

\* the store answered the department lookup with an error after the client
\* had been created: the request ended there with 502
C24_Witness ==
    /\ pc = "department"
    /\ FailedUpstream
    /\ resp = Exc(502, "upstream")
    /\ Cardinality(clients \ InitClients) = 1
    /\ calls[Len(calls)].table = "departments"
    /\ tickets = {}

----------------------------------------------------------------------------
(* build_utc_range (app/services/tickets_service.py) and the two routes that
   filter by date (app/api/routes/tickets.py) *)

\* a date string is the sequence of the numbers between its dashes:
\* <<2025, 9, 30>> is "2025-9-30" and "2025-09-30", <<>> is ""
ValidDateStrings == {<<2025, 9, 29>>, <<2025, 9, 30>>, <<2025, 10, 1>>}

\* "", a string with two parts, and the 31st of September
OddDateStrings == {<<>>, <<2025, 9>>, <<2025, 9, 31>>}

\* Optional[str]: {} is None
OptDateStrings == {{}} \cup {{s} : s \in ValidDateStrings \cup OddDateStrings}

IsLeap(y) == (y % 4 = 0 /\ y % 100 # 0) \/ y % 400 = 0

DaysInMonth(y, m) ==
    IF m = 2 THEN (IF IsLeap(y) THEN 29 ELSE 28)
    ELSE IF m \in {4, 6, 9, 11} THEN 30 ELSE 31

MAXYEAR == 9999

\* datetime(y, m, d, tzinfo=timezone.utc) accepts the numbers
IsDate(y, m, d) ==
    /\ y \in 1..MAXYEAR
    /\ m \in 1..12
    /\ d \in 1..DaysInMonth(y, m)

\* _parse_ymd_utc(value): ok is FALSE for ValueError; dt is the day, at
\* 00:00:00 UTC
_parse_ymd_utc(value) ==
    IF Len(value) # 3 THEN [ok |-> FALSE, dt |-> <<0, 0, 0>>]
    ELSE IF ~IsDate(value[1], value[2], value[3])
    THEN [ok |-> FALSE, dt |-> <<0, 0, 0>>]
    ELSE [ok |-> TRUE, dt |-> <<value[1], value[2], value[3]>>]

\* dt + timedelta(days=1)
NextDay(dt) ==
    IF dt[3] < DaysInMonth(dt[1], dt[2]) THEN <<dt[1], dt[2], dt[3] + 1>>
    ELSE IF dt[2] < 12 THEN <<dt[1], dt[2] + 1, 1>>
    ELSE <<dt[1] + 1, 1, 1>>

\* the argument is neither None nor ""
TruthyArg(a) == a # {} /\ a # {<<>>}

TheArg(a) == CHOOSE s \in a : TRUE

\* build_utc_range(on, start_at, end_at): ok is FALSE for ValueError; the
\* two ISO strings "YYYY-MM-DDT00:00:00Z" are kept as <<y, m, d>>
build_utc_range(o, s, e) ==
    LET bad == [ok |-> FALSE, start |-> <<0, 0, 0>>, end |-> <<0, 0, 0>>]
    IN  IF TruthyArg(o)
        THEN LET p == _parse_ymd_utc(TheArg(o))
             IN IF p.ok THEN [ok |-> TRUE, start |-> p.dt, end |-> NextDay(p.dt)]
                ELSE bad
        ELSE IF ~(TruthyArg(s) /\ TruthyArg(e)) THEN bad
        ELSE LET ps == _parse_ymd_utc(TheArg(s))
                 pe == _parse_ymd_utc(TheArg(e))
             IN IF ps.ok /\ pe.ok
                THEN [ok |-> TRUE, start |-> ps.dt, end |-> NextDay(pe.dt)]
                ELSE bad

\* a >= b on two ISO strings of the same width
IsoGeq(a, b) ==
    \/ a[1] > b[1]
    \/ a[1] = b[1] /\ a[2] > b[2]
    \/ a[1] = b[1] /\ a[2] = b[2] /\ a[3] >= b[3]

HTTP_400 == 400

\* the answer to a request whose handler raised something else than
\* HTTPException
HTTP_500 == 500

\* the range of the request, or the status it ends with before the query:
\* lines 461-466 and 540-548
DateFilter(o, s, e) ==
    LET r == IF o # {} THEN build_utc_range(o, {}, {})
             ELSE build_utc_range({}, s, e)
    IN  IF ~r.ok THEN [status |-> HTTP_500, range |-> {}]
        ELSE IF o = {} /\ IsoGeq(r.start, r.end)
        THEN [status |-> HTTP_400, range |-> {}]
        ELSE [status |-> 0, range |-> {<<r.start, r.end>>}]

DtInit ==
    /\ CreateIdle
    /\ UpIdle
    /\ DelIdle
    /\ AdmIdle
    /\ PgIdle
    /\ RtIdle
    /\ FmtIdle
    /\ EnIdle
    /\ route = "none"
    /\ attributes \in BOOLEAN
    /\ on \in OptDateStrings
    /\ start_date \in OptDateStrings
    /\ end_date \in OptDateStrings
    /\ q_range = {}
    /\ dt_status = 0

\* the query and the enrichment: the store answers or fails
Answered(f) ==
    /\ q_range' = f.range
    /\ dt_status' \in {HTTP_200, HTTP_502}

\* filter_tickets_by_date, lines 459-487
filter_tickets_by_date ==
    /\ route = "none"
    /\ route' = "by-date"
    /\ LET f == DateFilter(on, start_date, end_date)
       IN IF f.status # 0
          THEN dt_status' = f.status /\ q_range' = {}
          ELSE Answered(f)
    /\ UNCHANGED <<attributes, on, start_date, end_date>>
    /\ UNCHANGED <<createVars, rtVars, fmtVars, enVars, pgVars, admVars, delVars, upVars>>

\* filter_tickets_by_attributes, lines 524-560
filter_tickets_by_attributes ==
    /\ route = "none"
    /\ route' = "by-attributes"
    /\ IF ~attributes
       THEN dt_status' = HTTP_400 /\ q_range' = {}
       ELSE IF on = {} /\ start_date = {} /\ end_date = {}
       THEN Answered([range |-> {}])
       ELSE LET f == DateFilter(on, start_date, end_date)
            IN IF f.status # 0
               THEN dt_status' = f.status /\ q_range' = {}
               ELSE Answered(f)
    /\ UNCHANGED <<attributes, on, start_date, end_date>>
    /\ UNCHANGED <<createVars, rtVars, fmtVars, enVars, pgVars, admVars, delVars, upVars>>

DtNext ==
    \/ filter_tickets_by_date
    \/ filter_tickets_by_attributes

SpecDt == DtInit /\ [][DtNext]_vars

----------------------------------------------------------------------------
(* C25 *)

\* C25: filter_tickets_by_date answers 400 when on, start_date and end_date
\* are all absent, and when on is absent and only one of start_date and
\* end_date is given.
C25_MissingDatesGive400 ==
    (route = "by-date" /\ on = {} /\ (start_date = {} \/ end_date = {}))
        => dt_status = HTTP_400

----------------------------------------------------------------------------
(* C26 *)

\* a is the string of a date
IsValid(a) == a # {} /\ TheArg(a) \in ValidDateStrings

\* the two handlers reach their date filter with start_date and end_date
DatesCompared ==
    /\ route \in {"by-date", "by-attributes"}
    /\ route = "by-attributes" => attributes
    /\ on = {}
    /\ IsValid(start_date)
    /\ IsValid(end_date)

\* C26: with two valid dates, the two handlers answer 400 when start_date is
\* not before end_date, and otherwise query created_at in
\* [start_date 00:00Z, (end_date + 1 day) 00:00Z).
C26_StartNotBeforeEndGives400 ==
    DatesCompared =>
        IF IsoGeq(TheArg(start_date), TheArg(end_date))
        THEN dt_status = HTTP_400
        ELSE /\ dt_status \in {HTTP_200, HTTP_502}
             /\ q_range = {<<TheArg(start_date), NextDay(TheArg(end_date))>>}

----------------------------------------------------------------------------
(* list_tickets: GET /tickets/paginated (app/api/routes/tickets.py) *)

\* most rows of tickets_formatted
MaxRows == 6

\* greatest limit asked for (the route accepts 1 to 100)
MaxLimit == 3

\* the row at position k, from 0, of the table ordered by created_at; the
\* rows are numbered by creation
RowAt(n, desc, k) == IF desc THEN n - k ELSE k + 1

\* .order("created_at", desc=sort).range(offset, offset + limit - 1)
Range(n, desc, o, l) ==
    LET last == IF o + l - 1 < n - 1 THEN o + l - 1 ELSE n - 1
    IN  [i \in 1..(last - o + 1) |-> RowAt(n, desc, o + i - 1)]

\* a full page always has a successor
has_more_FullPage(rows, l, c, o) == Len(rows) = l

\* line 415
has_more(rows, l, c, o) ==
    Len(rows) = l /\ (c = {} \/ \A x \in c : o + l < x)

PgInit ==
    /\ CreateIdle
    /\ UpIdle
    /\ DelIdle
    /\ AdmIdle
    /\ RtIdle
    /\ FmtIdle
    /\ EnIdle
    /\ DtIdle
    /\ total \in 0..MaxRows
    /\ limit \in 1..MaxLimit
    /\ sort \in BOOLEAN
    /\ start \in 0..(MaxRows + 1)
    /\ offset = start
    /\ page = <<>>
    /\ count = {}
    /\ next_offset = {}
    /\ visited = <<>>
    /\ pg_status = 0

\* lines 402-426, for the first request of the caller and for each request
\* that takes its offset from next_offset of the answer before
list_tickets ==
    /\ \/ pg_status = 0
       \/ pg_status = HTTP_200 /\ next_offset # {}
    /\ LET o == IF pg_status = 0 THEN start ELSE CHOOSE x \in next_offset : TRUE
           d == Range(total, sort, o, limit)
       IN /\ offset' = o
          /\ \/ /\ pg_status' = HTTP_502
                /\ UNCHANGED <<page, count, next_offset, visited>>
             \/ /\ pg_status' = HTTP_200
                /\ page' = d
                /\ count' = {total}
                /\ next_offset' = IF has_more(d, limit, {total}, o)
                                  THEN {o + limit} ELSE {}
                /\ visited' = visited \o d
    /\ UNCHANGED <<total, limit, sort, start>>
    /\ UNCHANGED <<createVars, rtVars, fmtVars, enVars, dtVars, admVars, delVars, upVars>>

PgNext ==
    \/ list_tickets

SpecPg == PgInit /\ [][PgNext]_vars

----------------------------------------------------------------------------
(* C27 *)

\* the latest request was answered with a page
PageAnswered == pg_status = HTTP_200

\* C27: in an answered page, next_offset is offset + limit when the table
\* has rows beyond the page and None when it has none; and for a caller that
\* starts at offset 0 and follows next_offset, no row is visited twice and,
\* once next_offset is None, every row has been visited.
C27_NextOffsetWalksAllRows ==
    /\ PageAnswered =>
          next_offset = IF offset + limit < total THEN {offset + limit} ELSE {}
    /\ start = 0 =>
          /\ \A i, j \in 1..Len(visited) : i # j => visited[i] # visited[j]
          /\ (PageAnswered /\ next_offset = {}) =>
                {visited[i] : i \in 1..Len(visited)} = 1..total

\* a caller that started at 0 has read a table of twice the page size in
\* two full pages, and the second answer has no next_offset
C27_Witness ==
    /\ PageAnswered
    /\ start = 0
    /\ total = 2 * limit
    /\ limit > 1
    /\ offset = limit
    /\ Len(page) = limit
    /\ next_offset = {}
    /\ Len(visited) = total

----------------------------------------------------------------------------
(* require_admin (app/api/deps.py) in front of the analytics router
   (app/api/routes/analytics.py) *)

\* roles found in user_profiles; {} is None, for a user without profile or
\* with a null role
Roles == {{}, {"admin"}, {"superadmin"}, {"Admin"}, {"staff"}, {"client"}}

UserIds == {"u1", "u2", "u3"}

\* the records require_user returns, lines 89-97
Users ==
    [user_id : UserIds, role : Roles, staff_id : {{}, {1}}, client_id : {{}, {7}}]

HTTP_403 == 403

\* the endpoints of the router
AnalyticsEndpoints ==
    {"dashboard", "charts", "user-stats", "admin-stats", "response-times"}

\* role not in {...}, line 126
RoleAccepted(role) == role = {"admin"}

AdmInit ==
    /\ CreateIdle
    /\ UpIdle
    /\ DelIdle
    /\ RtIdle
    /\ FmtIdle
    /\ EnIdle
    /\ DtIdle
    /\ PgIdle
    /\ user \in Users
    /\ admitted = {}
    /\ endpoint = "none"
    /\ adm_status = 0

\* lines 119-128, run as the dependency of every route of the router
require_admin ==
    /\ adm_status = 0
    /\ admitted = {}
    /\ IF RoleAccepted(user.role)
       THEN admitted' = {user} /\ adm_status' = 0
       ELSE admitted' = {} /\ adm_status' = HTTP_403
    /\ UNCHANGED <<user, endpoint>>
    /\ UNCHANGED <<createVars, rtVars, fmtVars, enVars, dtVars, pgVars, delVars, upVars>>

\* the handler of the route runs once its dependency has returned
RunEndpoint(e) ==
    /\ adm_status = 0
    /\ admitted # {}
    /\ endpoint' = e
    /\ adm_status' \in {HTTP_200, HTTP_502}
    /\ UNCHANGED <<user, admitted>>
    /\ UNCHANGED <<createVars, rtVars, fmtVars, enVars, dtVars, pgVars, delVars, upVars>>

AdmNext ==
    \/ require_admin
    \/ \E e \in AnalyticsEndpoints : RunEndpoint(e)

SpecAdm == AdmInit /\ [][AdmNext]_vars

----------------------------------------------------------------------------
(* C28 *)

\* require_admin has returned or raised
AdminChecked == admitted # {} \/ adm_status # 0

\* C28: once require_admin has run, a user whose role is 'admin' or
\* 'superadmin' has been returned unchanged, and a user with any other role or
\* none has been answered 403 and no endpoint has run.
C28_AdminOrSuperadminAccepted ==
    AdminChecked =>
        IF user.role \in {{"admin"}, {"superadmin"}}
        THEN admitted = {user} /\ adm_status # HTTP_403
        ELSE admitted = {} /\ adm_status = HTTP_403 /\ endpoint = "none"

----------------------------------------------------------------------------
(* delete_ticket: DELETE /tickets/{ticket_id} (app/api/routes/tickets.py) *)

\* most rows of table tickets
MaxTickets == 3

PublicIds == {"TCK-1", "TCK-2", "TCK-3", "TCK-4"}

\* the rows the table can hold; id and ticket_id are unique
StoredTickets ==
    {[id |-> 1, ticket_id |-> "TCK-1"], [id |-> 2, ticket_id |-> "TCK-2"],
     [id |-> 3, ticket_id |-> "TCK-3"], [id |-> 4, ticket_id |-> "TCK-4"]}

TicketTables == {t \in SUBSET StoredTickets : Cardinality(t) <= MaxTickets}

HTTP_204 == 204

HTTP_404 == 404

\* .select("id").eq("ticket_id", ticket_id).execute(): without .single() the
\* data of the answer is the list of the rows found
SelectById(t, tid) ==
    [kind |-> "list", rows |-> {[id |-> r.id] : r \in {x \in t : x.ticket_id = tid}}]

\* not getattr(exists, "data", None)
NoData(d) == d.kind = "list" /\ d.rows = {}

\* exists.data["id"] if isinstance(exists.data, dict) else None; {} is None
ticket_pk(d) == IF d.kind = "dict" THEN {d.row.id} ELSE {}

\* the rows .delete().eq("id", pk) removes
DeleteByPk(t, pk) == {r \in t : {r.id} = pk}

DelInit ==
    /\ CreateIdle
    /\ UpIdle
    /\ RtIdle
    /\ FmtIdle
    /\ EnIdle
    /\ DtIdle
    /\ PgIdle
    /\ AdmIdle
    /\ del_store \in TicketTables
    /\ del_ticket_id \in PublicIds
    /\ del_answers = <<>>
    /\ del_exists = {}
    /\ del_removed = {}
    /\ del_status = 0

\* lines 795-804: the existence test
delete_ticket_exists ==
    /\ del_status = 0
    /\ del_exists = {}
    /\ \E a \in {"ok", "error"} :
          /\ del_answers' = Append(del_answers, a)
          /\ LET d == SelectById(del_store, del_ticket_id)
             IN IF a = "error" \/ NoData(d)
                THEN del_exists' = {} /\ del_status' = HTTP_404
                ELSE del_exists' = {d} /\ del_status' = 0
    /\ UNCHANGED <<del_store, del_ticket_id, del_removed>>
    /\ UNCHANGED <<createVars, rtVars, fmtVars, enVars, dtVars, pgVars, admVars, upVars>>

\* lines 806-810: the delete
delete_ticket_delete ==
    /\ del_status = 0
    /\ del_exists # {}
    /\ \E a \in {"ok", "error"} :
          /\ del_answers' = Append(del_answers, a)
          /\ LET pk   == ticket_pk(CHOOSE d \in del_exists : TRUE)
                 gone == DeleteByPk(del_store, pk)
             IN IF a = "error"
                THEN /\ del_status' = HTTP_502
                     /\ UNCHANGED <<del_store, del_removed>>
                ELSE /\ del_status' = HTTP_204
                     /\ del_store' = del_store \ gone
                     /\ del_removed' = del_removed \cup gone
    /\ UNCHANGED <<del_ticket_id, del_exists>>
    /\ UNCHANGED <<createVars, rtVars, fmtVars, enVars, dtVars, pgVars, admVars, upVars>>

DelNext ==
    \/ delete_ticket_exists
    \/ delete_ticket_delete

SpecDel == DelInit /\ [][DelNext]_vars

----------------------------------------------------------------------------
(* C29 *)

\* the request has been answered and the store failed in none of its calls
DeleteAnswered ==
    /\ del_status # 0
    /\ \A i \in 1..Len(del_answers) : del_answers[i] = "ok"

\* the table had a ticket with the ticket_id of the path when the request came
TicketExisted ==
    \E r \in del_store \cup del_removed : r.ticket_id = del_ticket_id

\* C29: when the store answers every call, a request with the ticket_id of an
\* existing ticket is answered 204 and the table has no ticket with that
\* ticket_id afterwards, and a request with a ticket_id no ticket has is
\* answered 404 and deletes nothing.
C29_DeleteRemovesTicket ==
    DeleteAnswered =>
        IF TicketExisted
        THEN /\ del_status = HTTP_204
             /\ \A r \in del_store : r.ticket_id # del_ticket_id
        ELSE /\ del_status = HTTP_404
             /\ del_removed = {}

----------------------------------------------------------------------------
(* update_ticket_with_attachments: PATCH /tickets/{ticket_id}
   (app/api/routes/tickets.py) with upload_attachments_for_ticket
   (app/services/tickets_service.py) *)

\* most files in a request
MaxFiles == 2

FileNames == {"a.png", "b.pdf"}

FileLists == UNION {[1..n -> FileNames] : n \in 0..MaxFiles}

\* id of the ticket of the path, and of another ticket
ThePk == 1

OtherPk == 2

\* rows of ticket_attachments before the request; the object of a row is at
\* the path of its file_path
OldRows ==
    {[id |-> 1, ticket_id |-> ThePk, filename |-> "old1.png", file_path |-> <<"old", 1>>],
     [id |-> 2, ticket_id |-> ThePk, filename |-> "old2.png", file_path |-> <<"old", 2>>],
     [id |-> 3, ticket_id |-> OtherPk, filename |-> "other.png", file_path |-> <<"old", 3>>]}

LastOldId == 3

\* rows with ticket_id pk
RowsOfTicket(t, pk) == {r \in t : r.ticket_id = pk}

\* the delete removes nothing
DeleteRows_Keep(t, pk) == t

\* .delete().eq("ticket_id", ticket_pk), route line 769
DeleteRows(t, pk) == t \ RowsOfTicket(t, pk)

\* object_path of the k-th file: the uuid makes it new
ObjectPath(k) == <<"new", k>>

\* the row inserted for the k-th file, service lines 225-233
NewRow(k) ==
    [id |-> LastOldId + k, ticket_id |-> ThePk, filename |-> files[k],
     file_path |-> ObjectPath(k)]

UpInit ==
    /\ CreateIdle
    /\ RtIdle
    /\ FmtIdle
    /\ EnIdle
    /\ DtIdle
    /\ PgIdle
    /\ AdmIdle
    /\ DelIdle
    /\ up_exists \in BOOLEAN
    /\ patch_data \in BOOLEAN
    /\ files \in FileLists
    /\ up_table \in SUBSET OldRows
    /\ up_exists = FALSE => RowsOfTicket(up_table, ThePk) = {}
    /\ up_storage = {r.file_path : r \in up_table}
    /\ up_old = RowsOfTicket(up_table, ThePk)
    /\ inserted = <<>>
    /\ up_calls = <<>>
    /\ up_pc = "patch"
    /\ up_returned = {}
    /\ up_status = 0

\* the request ends with status s after the calls cs
UpFail(s, cs) ==
    /\ up_status' = s
    /\ up_calls' = up_calls \o cs
    /\ UNCHANGED up_pc

\* route lines 733-742: the update of the fields
up_patch ==
    /\ up_pc = "patch"
    /\ up_status = 0
    /\ IF ~patch_data
       THEN up_pc' = "clear" /\ UNCHANGED <<up_calls, up_status>>
       ELSE \/ UpFail(HTTP_502, <<"update">>)
            \/ ~up_exists /\ UpFail(HTTP_404, <<"update">>)
            \/ /\ up_exists
               /\ up_pc' = "clear"
               /\ up_calls' = Append(up_calls, "update")
               /\ UNCHANGED up_status
    /\ UNCHANGED <<up_exists, patch_data, files, up_table, up_storage, up_old,
                   inserted, up_returned>>
    /\ UNCHANGED <<createVars, rtVars, fmtVars, enVars, dtVars, pgVars, admVars, delVars>>

\* route lines 745-771: the old attachments are removed
up_clear ==
    /\ up_pc = "clear"
    /\ up_status = 0
    /\ IF files = <<>>
       THEN /\ up_pc' = "fetch"
            /\ UNCHANGED <<up_calls, up_status, up_table, up_storage>>
       ELSE \/ /\ UpFail(HTTP_404, <<"lookup">>)
               /\ UNCHANGED <<up_table, up_storage>>
            \/ /\ up_exists
               /\ UpFail(HTTP_502, <<"lookup", "select">>)
               /\ UNCHANGED <<up_table, up_storage>>
            \/ /\ up_exists
               /\ LET paths == {r.file_path : r \in RowsOfTicket(up_table, ThePk)}
                  IN \E removed \in {{}, paths} :
                        /\ up_storage' = up_storage \ removed
                        /\ \/ /\ UpFail(HTTP_502, <<"lookup", "select", "remove", "delete">>)
                              /\ UNCHANGED up_table
                           \/ /\ up_table' = DeleteRows(up_table, ThePk)
                              /\ up_calls' = up_calls \o
                                    <<"lookup", "select", "remove", "delete">>
                              /\ up_pc' = "fetch"
                              /\ UNCHANGED up_status
    /\ UNCHANGED <<up_exists, patch_data, files, up_old, inserted, up_returned>>
    /\ UNCHANGED <<createVars, rtVars, fmtVars, enVars, dtVars, pgVars, admVars, delVars>>

\* route lines 774-783, and service lines 179-185 where the list of files is
\* empty
up_fetch ==
    /\ up_pc = "fetch"
    /\ up_status = 0
    /\ \/ UpFail(HTTP_404, <<"fetch">>)
       \/ /\ up_exists
          /\ up_calls' = Append(up_calls, "fetch")
          /\ up_pc' = IF files = <<>> THEN "enrich" ELSE "upload"
          /\ UNCHANGED up_status
    /\ UNCHANGED <<up_exists, patch_data, files, up_table, up_storage, up_old,
                   inserted, up_returned>>
    /\ UNCHANGED <<createVars, rtVars, fmtVars, enVars, dtVars, pgVars, admVars, delVars>>

\* service lines 190-245: one turn of the loop over the files
up_upload ==
    /\ up_pc = "upload"
    /\ up_status = 0
    /\ LET k == Len(inserted) + 1
       IN \/ /\ UpFail(HTTP_502, <<"upload">>)
             /\ UNCHANGED <<up_table, up_storage, inserted>>
          \/ /\ UpFail(HTTP_502, <<"upload", "insert">>)
             /\ up_storage' = up_storage \cup {ObjectPath(k)}
             /\ UNCHANGED <<up_table, inserted>>
          \/ /\ up_storage' = up_storage \cup {ObjectPath(k)}
             /\ up_table' = up_table \cup {NewRow(k)}
             /\ inserted' = Append(inserted, NewRow(k))
             /\ up_calls' = up_calls \o <<"upload", "insert">>
             /\ up_pc' = IF k = Len(files) THEN "enrich" ELSE "upload"
             /\ UNCHANGED up_status
    /\ UNCHANGED <<up_exists, patch_data, files, up_old, up_returned>>
    /\ UNCHANGED <<createVars, rtVars, fmtVars, enVars, dtVars, pgVars, admVars, delVars>>

\* route lines 786-788: the ticket is returned with the rows the table has
\* for it
up_enrich ==
    /\ up_pc = "enrich"
    /\ up_status = 0
    /\ \/ /\ UpFail(HTTP_502, <<"enrich">>)
          /\ UNCHANGED up_returned
       \/ /\ up_status' = HTTP_200
          /\ up_calls' = Append(up_calls, "enrich")
          /\ up_returned' = RowsOfTicket(up_table, ThePk)
          /\ up_pc' = "done"
    /\ UNCHANGED <<up_exists, patch_data, files, up_table, up_storage, up_old, inserted>>
    /\ UNCHANGED <<createVars, rtVars, fmtVars, enVars, dtVars, pgVars, admVars, delVars>>

UpNext ==
    \/ up_patch
    \/ up_clear
    \/ up_fetch
    \/ up_upload
    \/ up_enrich

SpecUp == UpInit /\ [][UpNext]_vars

----------------------------------------------------------------------------
(* C30 *)

\* a file of this request has been sent to the storage
UploadStarted == \E i \in 1..Len(up_calls) : up_calls[i] = "upload"

\* the request ended in the loop over the files
UploadFailed == up_pc = "upload" /\ up_status # 0

\* C30: in a request with files, once a file has been sent to the storage
\* the table has none of the rows the ticket had before, and the delete call
\* precedes every upload call; when the request is answered 200, the returned
\* attachments are the rows inserted for its files, one for each file in
\* order; and when an upload fails, the request has an error status and the
\* table still has none of the old rows.
C30_FilesReplaceAttachments ==
    files # <<>> =>
        /\ UploadStarted =>
              /\ up_table \cap up_old = {}
              /\ \A i \in 1..Len(up_calls) : up_calls[i] = "upload" =>
                    \E j \in 1..(i - 1) : up_calls[j] = "delete"
        /\ up_status = HTTP_200 =>
              /\ up_returned = {inserted[i] : i \in 1..Len(inserted)}
              /\ Len(inserted) = Len(files)
              /\ \A i \in 1..Len(files) : inserted[i].filename = files[i]
              /\ up_returned \cap up_old = {}
        /\ UploadFailed =>
              /\ up_status >= 400
              /\ up_table \cap up_old = {}

\* the ticket had two attachments, the request brought two files: the first
\* was stored, the upload of the second failed, and the table has the one
\* new row of the ticket and none of the two old ones
C30_Witness ==
    /\ Len(files) = 2
    /\ Cardinality(up_old) = 2
    /\ UploadFailed
    /\ up_status = HTTP_502
    /\ Len(inserted) = 1
    /\ RowsOfTicket(up_table, ThePk) = {inserted[1]}

====
